---- MODULE Spec2Model ----
(***************************************************************************)
(* A model of financial_consolidation_app.py: the label normalizer, the    *)
(* income-statement anchor locator and band parser, the balance-sheet      *)
(* section parser, the merge/write engine and the per-file consolidation   *)
(* loops of process_all_files.                                             *)
(*                                                                         *)
(* Text.  A Python string is modelled as a sequence of tokens.  A token is *)
(* either a maximal run of word characters (a word, e.g. "rental") or one  *)
(* single non-word character (" ", "/", "&", ".", ...).  Every pattern of  *)
(* the synonym table starts and ends with a word character between \b      *)
(* anchors, so a regex match on the characters is exactly a match of the   *)
(* pattern's tokens on the token sequence.                                 *)
(***************************************************************************)
EXTENDS Integers, Sequences, FiniteSets, TLC

VARIABLES
    n_pc,       \* normalizer harness: "start", "once", "twice"
    n_raw,      \* the raw label handed to normalize_label
    n_once,     \* normalize_label(n_raw)
    n_twice,    \* normalize_label(normalize_label(n_raw))
    a_pc,       \* anchor harness: "start", "done"
    a_ws,       \* the income worksheet handed to find_anchor_rows
    a_res,      \* the dict find_anchor_rows returned
    p_pc,       \* parse harness: "start", "ytd", "done"
    p_ws,       \* the source income worksheet
    p_ytd,      \* what parse_income_sheet_ytd(p_ws) returned
    p_month,    \* what parse_income_sheet_month(p_ws) returned
    m_pc,       \* match_and_write: "loop", "done", "raised"
    m_ws0,      \* the template sheet when match_and_write was called
    m_ws,       \* the template sheet now
    m_r,        \* the loop variable r: the next row to visit
    m_dict,     \* src_dict
    m_threshold, \* fuzzy_threshold
    m_scores,   \* per visited row, the scores the matcher gave the candidates
    b_pc,       \* process_balance_sheet_file: "call" before, "done" after
    b_df,       \* the grid read from the balance sheet
    b_summary,  \* what process_balance_sheet_file(b_df) returned
    r_pc,       \* process_all_files: "income", "balance", "write", "done"
    r_idx,      \* the position in source_files of the loop that is running
    r_files,    \* source_files: name, income sheet and balance-sheet grid
    r_threshold, \* fuzzy_threshold
    r_sim,      \* the matcher's score for strings that share a word
    r_inc0,     \* the template's Income sheet as loaded
    r_bs0,      \* the template's Balance_sheet sheet as loaded
    r_inc,      \* master_ws_inc
    r_bs,       \* master_ws_bs
    r_summaries, \* all_summaries
    r_log,      \* every cell write of the run, in order
    r_logs,     \* st.session_state.processing_logs: warnings, errors, successes
    f_pc,       \* budget and prior-year stages: "budget", "last", "write", "finish", "done", "failed"
    f_month,    \* selected_month
    f_budget,   \* df: the budget file's sheet 'Consolidated {file_year}'
    f_last,     \* df_last: last year's sheet 'Income_statement'
    f_sim,      \* the matcher's score for texts that differ and share a word
    f_ws0,      \* the template's Income_statement sheet as loaded
    f_ws,       \* ws = master_wb['Income_statement']
    f_results,  \* results
    f_last_results, \* last_results
    f_stage,    \* current_stage
    f_written,  \* every cell write of the final write, in order
    f_ret,      \* what process_all_files returned: "none", "True" or "False"
    f_error,    \* the stage st.error reported, or ""
    f_output,   \* st.session_state.consolidated_file is set
    c_pc,       \* parse_section: "call", "loop", "done"
    c_df,       \* df
    c_section,  \* section
    c_sum_col,  \* sum_col
    c_i,        \* the cursor i of the classification loop, counted from 1
    c_result,   \* result
    c_seen,     \* per iteration so far, the section rows it read
    s_pc,       \* the session: "idle" between runs, "running" inside process_all_files
    s_run,      \* how many times Process Files was pressed
    s_stage,    \* the position of current_stage in the stages of a run
    s_processed, \* st.session_state.processed
    s_file,     \* st.session_state.consolidated_file: the run that saved it, 0 for None
    s_logs,     \* st.session_state.processing_logs: the run and stage of each entry
    s_ret       \* what each finished run returned, in order

normVars == <<n_pc, n_raw, n_once, n_twice>>
anchVars == <<a_pc, a_ws, a_res>>
parseVars == <<p_pc, p_ws, p_ytd, p_month>>
matchVars == <<m_pc, m_ws0, m_ws, m_r, m_dict, m_threshold, m_scores>>
balVars == <<b_pc, b_df, b_summary>>
runVars == <<r_pc, r_idx, r_files, r_threshold, r_sim, r_inc0, r_bs0, r_inc, r_bs,
             r_summaries, r_log, r_logs>>
finVars == <<f_pc, f_month, f_budget, f_last, f_sim, f_ws0, f_ws, f_results, f_last_results,
             f_stage, f_written, f_ret, f_error, f_output>>
curVars == <<c_pc, c_df, c_section, c_sum_col, c_i, c_result, c_seen>>
sessVars == <<s_pc, s_run, s_stage, s_processed, s_file, s_logs, s_ret>>
vars == <<normVars, anchVars, parseVars, matchVars, balVars, runVars, finVars, curVars, sessVars>>

(***************************************************************************)
(* Bounds of the model.                                                    *)
(***************************************************************************)
MaxLabelLen == 3
MaxAnchorRows == 4
MaxParseRows == 3
MaxMatchRows == 2
MaxDictKeys == 2
MaxSectionRows == 2
MaxFiles == 2

(***************************************************************************)
(* str.lower(): the capitalised words that occur in the labels below.      *)
(***************************************************************************)
LowerTok(t) ==
    CASE t = "Subtotal" -> "subtotal"
      [] t = "Gain" -> "gain"
      [] t = "Loss" -> "loss"
      [] t = "Investment" -> "investment"
      [] t = "Industrial" -> "industrial"
      [] t = "Rent" -> "rent"
      [] t = "Rental" -> "rental"
      [] t = "Revenue" -> "revenue"
      [] t = "REVENUE" -> "revenue"
      [] t = "Income" -> "income"
      [] t = "INCOME" -> "income"
      [] t = "Expenses" -> "expenses"
      [] t = "Advertising" -> "advertising"
      [] t = "Management" -> "management"
      [] t = "Fee" -> "fee"
      [] t = "Total" -> "total"
      [] t = "TOTAL" -> "total"
      [] t = "Subtotal" -> "subtotal"
      [] t = "Net" -> "net"
      [] t = "Utilities" -> "utilities"
      [] t = "Uhaul" -> "uhaul"
      [] t = "Other" -> "other"
      [] t = "Month" -> "month"
      [] t = "YTD" -> "ytd"
      [] t = "CASH" -> "cash"
      [] t = "Cash" -> "cash"
      [] t = "INVENTORY" -> "inventory"
      [] t = "Inventory" -> "inventory"
      [] t = "ACCOUNTS" -> "accounts"
      [] t = "Accounts" -> "accounts"
      [] t = "PAYABLE" -> "payable"
      [] t = "Payable" -> "payable"
      [] t = "RECEIVABLE" -> "receivable"
      [] t = "Receivable" -> "receivable"
      [] t = "PRIVATE" -> "private"
      [] t = "Retained" -> "retained"
      [] t = "Earnings" -> "earnings"
      [] t = "US" -> "us"
      [] t = "Bedford" -> "bedford"
      [] t = "Weston" -> "weston"
      [] t = "Laird" -> "laird"
      [] t = "HST" -> "hst"
      [] t = "RECOVERABLE" -> "recoverable"
      [] t = "LOANS" -> "loans"
      [] t = "HOLDBACK" -> "holdback"
      [] t = "Due" -> "due"
      [] t = "From" -> "from"
      [] t = "CSIT" -> "csit"
      [] t = "Companies" -> "companies"
      [] t = "Deferred" -> "deferred"
      [] t = "Deposits" -> "deposits"
      [] t = "AND" -> "and"
      [] t = "ACCRUED" -> "accrued"
      [] t = "CAPITAL" -> "capital"
      [] t = "FIXED" -> "fixed"
      [] t = "ASSETS" -> "assets"
      [] t = "Trade" -> "trade"
      [] t = "RENTAL" -> "rental"
      [] t = "NET" -> "net"
      [] t = "PROFIT" -> "profit"
      [] t = "Profit" -> "profit"
      [] t = "LOSS" -> "loss"
      [] OTHER -> t

Lower(s) == [i \in 1..Len(s) |-> LowerTok(s[i])]

\* the characters of the class [\/,\(\)\—\–\-\:] of line 164
IsPunct(t) == t \in {"/", ",", "(", ")", "-", ":"}

\* a token that is one non-word character
IsNonWord(t) == IsPunct(t) \/ t \in {" ", "&", "."}

\* str.strip(): drop leading and trailing whitespace
RECURSIVE LStrip(_)
LStrip(s) == IF s # <<>> /\ Head(s) = " " THEN LStrip(Tail(s)) ELSE s

RECURSIVE RStrip(_)
RStrip(s) ==
    IF s # <<>> /\ s[Len(s)] = " " THEN RStrip(SubSeq(s, 1, Len(s) - 1)) ELSE s

Strip(s) == LStrip(RStrip(s))

\* re.sub(r'[\/,\(\)\—\–\-\:]', ' ', s)
SubPunct(s) == [i \in 1..Len(s) |-> IF IsPunct(s[i]) THEN " " ELSE s[i]]

\* re.sub(r'\s+', ' ', s)
RECURSIVE CollapseSpaces(_)
CollapseSpaces(s) ==
    IF Len(s) < 2 THEN s
    ELSE IF s[1] = " " /\ s[2] = " " THEN CollapseSpaces(Tail(s))
    ELSE <<s[1]>> \o CollapseSpaces(Tail(s))

\* re.sub(pat, replacement, s): every non-overlapping match, left to right
RECURSIVE ReSub(_, _, _)
ReSub(pat, rep, s) ==
    IF Len(s) < Len(pat) \/ ~(\E i \in 1..Len(s) : s[i] = pat[1]) THEN s
    ELSE IF SubSeq(s, 1, Len(pat)) = pat
         THEN rep \o ReSub(pat, rep, SubSeq(s, Len(pat) + 1, Len(s)))
         ELSE <<s[1]>> \o ReSub(pat, rep, Tail(s))

\* "a b c" as tokens
W1(a) == <<a>>
W2(a, b) == <<a, " ", b>>
W3(a, b, c) == <<a, " ", b, " ", c>>

\* the synonyms dict of normalize_label, in insertion order
synonyms == <<
    <<W2("industrial", "rent"), W2("rental", "income")>>,
    <<W3("retail", "rental", "income"), W2("rental", "income")>>,
    <<W2("office", "rent"), W2("rental", "income")>>,
    <<W2("rental", "revenue"), W2("rental", "income")>>,
    <<W2("rental", "income"), W2("rental", "income")>>,
    <<<<"lease", " ", "-", " ", "cp", " ", "rail">>, W1("rent")>>,
    <<W2("merchandise", "revenue"), W2("merchandise", "income")>>,
    <<W2("merchandise", "income"), W2("merchandise", "income")>>,
    <<W2("insurance", "revenue"), W2("insurance", "income")>>,
    <<W2("insurance", "income"), W2("insurance", "income")>>,
    <<W2("truck", "rental"), W2("truck", "rental")>>,
    <<W1("uhaul"), W2("truck", "rental")>>,
    <<W2("bad", "debt"), W2("bad", "debt")>>,
    <<W2("bad", "debts"), W2("bad", "debt")>>,
    <<W2("office", "supplies"), W1("office")>>,
    <<W2("professional", "fees"), W1("professional")>>,
    <<<<"property", " ", "mgt", ".", " ", "fee">>, W2("management", "fee")>>,
    <<W2("management", "fee"), W2("management", "fee")>>,
    <<<<"amortization", "/", "finance", " ", "cost">>, W1("amortization")>>,
    <<<<"amortization", "/", "finance", " ", "costs">>, W1("amortization")>>,
    <<W1("amortization"), W1("amortization")>>,
    <<W1("depreciation"), W1("depreciation")>>,
    <<W2("mortgage", "interest"), W2("mortgage", "interest")>>,
    <<W3("mortgage", "loan", "interest"), W2("mortgage", "interest")>>,
    <<W2("legal", "fee"), W2("legal", "fees")>>,
    <<W2("legal", "fees"), W2("legal", "fees")>>,
    <<W2("lease", "payment"), W2("lease", "payment")>>,
    <<<<"gain", " ", "on", " ", "sale", " ", "of", " ", "asset">>,
      <<"gain", "/", "loss", " ", "on", " ", "investment">>>>,
    <<<<"gain", "/", "loss", " ", "on", " ", "investment">>,
      <<"gain", "/", "loss", " ", "on", " ", "investment">>>>,
    <<W2("other", "income"), W2("other", "income")>>,
    <<W2("other", "revenue"), W2("other", "income")>>,
    <<W1("utilities"), W1("utilities")>>,
    <<<<"maintenance", " ", "&", " ", "repairs">>, W1("maintenance")>>,
    <<W1("maintenance"), W1("maintenance")>>,
    <<W1("insurance"), W1("insurance")>>,
    <<W1("advertising"), W1("advertising")>>,
    <<W2("bank", "charges"), W2("bank", "charges")>>,
    <<W2("realty", "taxes"), W2("realty", "taxes")>>,
    <<W2("realty", "tax"), W2("realty", "taxes")>>,
    <<<<"salaries", " ", "&", " ", "benefits">>, W1("salaries")>>,
    <<W1("salaries"), W1("salaries")>>,
    <<W1("telephone"), W1("telephone")>>,
    <<W1("office"), W1("office")>>,
    <<W3("lease", "cp", "rail"), W1("rent")>>
>>

\* for pat, replacement in synonyms.items(): s = re.sub(pat, replacement, s)
RECURSIVE ApplyRules(_, _, _)
ApplyRules(rules, s, k) ==
    IF k > Len(rules) THEN s
    ELSE IF ReSub(rules[k][1], rules[k][2], s) = s THEN ApplyRules(rules, s, k + 1)
    ELSE ApplyRules(rules, ReSub(rules[k][1], rules[k][2], s), k + 1)

\* the body of normalize_label(raw_label); None and "" are the empty sequence
NormalizeSteps(raw_label) ==
    IF raw_label = <<>> THEN <<>>
    ELSE Strip(ApplyRules(synonyms, CollapseSpaces(SubPunct(Strip(Lower(raw_label)))), 1))

\* the label texts of the worksheets below, normalized once and looked up
SheetLabels == {
    W1("Revenue"), W1("Expenses"), W1("Income"), W1("INCOME"),
    W2("Rental", "Income"), W1("Advertising"), W2("Management", "Fee"),
    W2("Rental", "Revenue"), W2("Industrial", "Rent"), W2("Total", "Revenue"),
    W1("Utilities"), <<"Gain", "/", "Loss", " ", "on", " ", "Investment">>,
    <<"Gain", " ", "on", " ", "sale", " ", "of", " ", "asset">>, W2("Other", "Income"),
    W1("Subtotal"), <<>>
}

NormalizedSheetLabel == [l \in SheetLabels |-> NormalizeSteps(l)] @@ <<>>

normalize_label(raw_label) ==
    IF raw_label \in SheetLabels THEN NormalizedSheetLabel[raw_label]
    ELSE NormalizeSteps(raw_label)

(***************************************************************************)
(* Labels handed to the normalizer: every well-formed token sequence of at *)
(* most MaxLabelLen tokens over NormVocab (no two words are adjacent: two  *)
(* adjacent word characters belong to one token), and the spellings of the *)
(* synonym table.                                                          *)
(***************************************************************************)
NormVocab == {"rental", "revenue", "Uhaul", "retail", "income", " ", "/"}

WellFormed(s) ==
    \A i \in 1..(Len(s) - 1) : IsNonWord(s[i]) \/ IsNonWord(s[i + 1])

SeqsUpTo(S, n) == UNION {[1..k -> S] : k \in 0..n}

SampleLabels == {
    W2("Industrial", "Rent"),
    W2("Rental", "Revenue"),
    W2("Rental", "Income"),
    <<"amortization", "/", "finance", " ", "cost">>,
    <<"Gain", " ", "on", " ", "sale", " ", "of", " ", "asset">>,
    <<"lease", " ", "-", " ", "cp", " ", "rail">>,
    <<"property", " ", "mgt", ".", " ", "fee">>,
    <<"maintenance", " ", "&", " ", "repairs">>,
    W2("legal", "fee"),
    W2("bad", "debts"),
    W2("office", "supplies"),
    W1("Advertising"),
    W2("Management", "Fee"),
    <<"(", "Utilities", ")">>
}

NormInputs == {s \in SeqsUpTo(NormVocab, MaxLabelLen) : WellFormed(s)} \cup SampleLabels

(***************************************************************************)
(* Worksheets.  A cell value is None, a string (a token sequence) or a     *)
(* number v/d (d is 1 unless the number was halved); a worksheet is a      *)
(* sequence of rows, a row a sequence of cells, both 1-based as in         *)
(* openpyxl.  A cell outside the sheet reads as None.                      *)
(***************************************************************************)
None == [t |-> "none", s |-> <<>>, v |-> 0, d |-> 1]
Str(s) == [t |-> "str", s |-> s, v |-> 0, d |-> 1]
Num(v) == [t |-> "num", s |-> <<>>, v |-> v, d |-> 1]

\* ws.cell(row=r, column=c).value
CellValue(ws, r, c) ==
    IF r \in 1..Len(ws) /\ c \in 1..Len(ws[r]) THEN ws[r][c] ELSE None

\* ws.max_row
max_row(ws) == Len(ws)

\* Python truthiness of a cell value: None, "" and 0 are falsy
Truthy(cell) ==
    \/ cell.t = "str" /\ cell.s # <<>>
    \/ cell.t = "num" /\ cell.v # 0

\* str(x) of a cell value that is a string; the digits of a number are one
\* word token, which no pattern of this program matches
StrOf(cell) ==
    CASE cell.t = "str" -> cell.s
      [] cell.t = "num" -> <<"#">>
      [] OTHER -> <<"None">>

\* normalize_label(cell) for cell = (value or ""): a falsy value is ""
NormCell(cell) == IF Truthy(cell) THEN normalize_label(StrOf(cell)) ELSE <<>>

\* re.compile(r'^\s*<word>\s*$', re.IGNORECASE).match(val)
MatchesWord(val, word) == Strip(Lower(val)) = <<word>>

(***************************************************************************)
(* find_anchor_rows.  A missing anchor (None) is 0; rows start at 1.       *)
(* (value or "").strip() raises on a non-zero number: err.                 *)
(***************************************************************************)
NoAnchors == [rev_start |-> 0, exp_start |-> 0, inc_start |-> 0, err |-> FALSE]

\* the header scan, lines 237-246, from row `row` on
RECURSIVE ScanAnchors(_, _, _)
ScanAnchors(ws, row, a) ==
    IF row > max_row(ws) THEN a
    ELSE
      LET cell == CellValue(ws, row, 1) IN
      IF cell.t = "num" /\ cell.v # 0 THEN [a EXCEPT !.err = TRUE]
      ELSE
        LET val == IF Truthy(cell) THEN Strip(cell.s) ELSE <<>>
            b == IF a.rev_start = 0 /\ MatchesWord(val, "revenue")
                   THEN [a EXCEPT !.rev_start = row]
                 ELSE IF a.exp_start = 0 /\ MatchesWord(val, "expenses")
                   THEN [a EXCEPT !.exp_start = row]
                 ELSE IF a.inc_start = 0 /\ MatchesWord(val, "income")
                   THEN [a EXCEPT !.inc_start = row]
                 ELSE a
        IN IF b.rev_start # 0 /\ b.exp_start # 0 /\ b.inc_start # 0 THEN b
           ELSE ScanAnchors(ws, row + 1, b)

\* the first row r in from..max_row whose normalized label is `key`, else 0
RECURSIVE FirstLabelRow(_, _, _)
FirstLabelRow(ws, from, key) ==
    IF from > max_row(ws) THEN 0
    ELSE IF NormCell(CellValue(ws, from, 1)) = key THEN from
    ELSE FirstLabelRow(ws, from + 1, key)

Max(x, y) == IF x >= y THEN x ELSE y

\* <anchor> = max(r - 1, least) when a label row r was found (r # 0)
AnchorAbove(a, anchor, r, least) ==
    IF r = 0 THEN a ELSE [a EXCEPT ![anchor] = Max(r - 1, least)]

\* lines 248-253
FallbackRev(ws, a) ==
    IF a.rev_start # 0 THEN a
    ELSE AnchorAbove(a, "rev_start", FirstLabelRow(ws, 1, W2("rental", "income")), 1)

\* lines 255-260
FallbackExp(ws, a) ==
    IF a.exp_start # 0 \/ a.rev_start = 0 THEN a
    ELSE AnchorAbove(a, "exp_start", FirstLabelRow(ws, a.rev_start + 1, W1("advertising")),
                     a.rev_start + 1)

\* lines 262-267
FallbackInc(ws, a) ==
    IF a.inc_start # 0 \/ a.exp_start = 0 THEN a
    ELSE AnchorAbove(a, "inc_start",
                     FirstLabelRow(ws, a.exp_start + 1, W2("management", "fee")),
                     a.exp_start + 1)

\* lines 248-267: the fallbacks, applied to what the header scan found
Fallbacks(ws, scanned) ==
    IF scanned.err THEN scanned
    ELSE FallbackInc(ws, FallbackExp(ws, FallbackRev(ws, scanned)))

find_anchor_rows(ws) == Fallbacks(ws, ScanAnchors(ws, 1, NoAnchors))

(***************************************************************************)
(* A Python dict keeps insertion order: a sequence of entries [k, v].      *)
(***************************************************************************)
EmptyDict == <<>>

HasKey(d, k) == \E i \in 1..Len(d) : d[i].k = k

\* d[k] for a key of d
Get(d, k) == d[CHOOSE i \in 1..Len(d) : d[i].k = k].v

\* d[k] = v: an existing key keeps its place, a new key goes last
Put(d, k, v) ==
    IF HasKey(d, k)
    THEN [i \in 1..Len(d) |-> IF d[i].k = k THEN [k |-> k, v |-> v] ELSE d[i]]
    ELSE Append(d, [k |-> k, v |-> v])

\* list(d.keys())
Keys(d) == [i \in 1..Len(d) |-> d[i].k]

\* re.search(pat, txt): the tokens of pat occur in txt, contiguously
Contains(txt, pat) ==
    \E i \in 1..(Len(txt) - Len(pat) + 1) : SubSeq(txt, i, i + Len(pat) - 1) = pat

\* re.search(r'\b<phrase>\b', txt, re.IGNORECASE)
SearchPhrase(txt, phrase) == Contains(Lower(txt), phrase)

(***************************************************************************)
(* find_ytd_column, find_month_column: the first cell of rows 1..5, row by  *)
(* row, that is a string matching the header pattern; else the default.    *)
(***************************************************************************)
HeaderRows == 5
DefaultYtdCol == 8
DefaultMonthCol == 2

\* ws.max_column
max_column(ws) ==
    IF ws = <<>> THEN 1
    ELSE LET n == CHOOSE n \in {Len(ws[r]) : r \in 1..Len(ws)} :
                      \A r \in 1..Len(ws) : Len(ws[r]) <= n
         IN Max(n, 1)

\* re.search(r'y\.?t\.?d', cell, re.IGNORECASE)
IsYtdHeader(s) ==
    \/ \E i \in 1..Len(s) : LowerTok(s[i]) = "ytd"
    \/ Contains(Lower(s), <<"y", ".", "t", ".", "d">>)

\* re.search(r'Month', cell, re.IGNORECASE)
IsMonthHeader(s) == \E i \in 1..Len(s) : LowerTok(s[i]) \in {"month", "monthly", "months"}

RECURSIVE FindHeaderCol(_, _, _, _, _, _)
FindHeaderCol(ws, ncols, header_row, col, isYtd, default) ==
    IF header_row > HeaderRows THEN default
    ELSE IF col > ncols THEN FindHeaderCol(ws, ncols, header_row + 1, 1, isYtd, default)
    ELSE LET cell == CellValue(ws, header_row, col) IN
         IF cell.t = "str" /\ (IF isYtd THEN IsYtdHeader(cell.s) ELSE IsMonthHeader(cell.s))
         THEN col
         ELSE FindHeaderCol(ws, ncols, header_row, col + 1, isYtd, default)

find_ytd_column(ws) == FindHeaderCol(ws, max_column(ws), 1, 1, TRUE, DefaultYtdCol)
find_month_column(ws) == FindHeaderCol(ws, max_column(ws), 1, 1, FALSE, DefaultMonthCol)

(***************************************************************************)
(* parse_income_sheet_ytd / parse_income_sheet_month: the same three loops *)
(* over the YTD column or the month column.  A band's result is the dict   *)
(* and whether the loop raised (a string in the value column: 0 + "text"). *)
(***************************************************************************)
Band(d) == [d |-> d, err |-> FALSE]
Raised(d) == [d |-> d, err |-> TRUE]

\* a slip: d[key] = val
AccumulateOverwrites(d, key, val) == Put(d, key, val)

\* d[key] = d.get(key, 0) + val
Accumulate(d, key, val) ==
    Put(d, key, (IF HasKey(d, key) THEN Get(d, key) ELSE 0) + val)

\* one row of a band: raw_label is truthy and not the band's total row
AddRow(ws, r, col, d) ==
    LET cell == CellValue(ws, r, col) IN
    IF cell.t = "str" /\ cell.s # <<>> THEN Raised(d)
    ELSE Band(Accumulate(d, normalize_label(StrOf(CellValue(ws, r, 1))),
                         IF cell.t = "num" THEN cell.v ELSE 0))

\* for r in range(lo, hi): the revenue and the expenses loops, from row r
\* with the band b built so far; a raise ends the loop
RECURSIVE RangeLoop(_, _, _, _, _, _)
RangeLoop(ws, r, hi, col, totalPhrase, b) ==
    IF b.err \/ r >= hi THEN b
    ELSE LET raw_label == CellValue(ws, r, 1) IN
         IF ~Truthy(raw_label) THEN RangeLoop(ws, r + 1, hi, col, totalPhrase, b)
         ELSE IF SearchPhrase(StrOf(raw_label), totalPhrase)
              THEN RangeLoop(ws, r + 1, hi, col, totalPhrase, b)
         ELSE RangeLoop(ws, r + 1, hi, col, totalPhrase, AddRow(ws, r, col, b.d))

\* the rows at which the income loop breaks
IncomeStop(ws, r) ==
    LET raw_label == CellValue(ws, r, 1) IN
    \/ ~Truthy(raw_label)
    \/ SearchPhrase(StrOf(raw_label), W1("total"))
    \/ SearchPhrase(StrOf(raw_label), W3("net", "rental", "income"))

\* while r <= ws.max_row: the income loop
RECURSIVE IncomeLoop(_, _, _, _)
IncomeLoop(ws, r, col, b) ==
    IF b.err \/ r > max_row(ws) THEN b
    ELSE IF IncomeStop(ws, r) THEN b
    ELSE IncomeLoop(ws, r + 1, col, AddRow(ws, r, col, b.d))

(***************************************************************************)
(* Source workbooks.  IncomeSheet lays out an income sheet: a header row,  *)
(* the three anchor rows and the item rows between them; Block lays out    *)
(* one section of a balance-sheet grid.  SheetA, SheetB, GridA and GridB   *)
(* are the sheets of the uploaded files of a run.                          *)
(***************************************************************************)
HeaderRow(labelled) ==
    IF labelled THEN <<None, Str(W1("Month")), Str(W1("YTD"))>> ELSE <<None, None, None>>

ItemRow(lab, i, hole) ==
    IF i = hole THEN <<lab, None, None>> ELSE <<lab, Num(2 ^ i), Num(3 ^ i)>>

IncomeSheet(labelled, data, cut1, cut2, hole) ==
    <<HeaderRow(labelled), <<Str(W1("Revenue"))>>>>
    \o [i \in 1..cut1 |-> ItemRow(data[i], i, hole)]
    \o <<<<Str(W1("Expenses"))>>>>
    \o [i \in 1..(cut2 - cut1) |-> ItemRow(data[cut1 + i], cut1 + i, hole)]
    \o <<<<Str(W1("Income"))>>>>
    \o [i \in 1..(Len(data) - cut2) |-> ItemRow(data[cut2 + i], cut2 + i, hole)]

BRow(label, amount, amtcol) ==
    IF amtcol = 1 THEN <<label, amount, None>> ELSE <<label, None, amount>>

RECURSIVE SumAmounts(_)
SumAmounts(rows) ==
    IF rows = <<>> THEN 0 ELSE rows[1].amount.v + SumAmounts(Tail(rows))

Block(marker, rows, amtcol) ==
    <<BRow(Str(<<marker>>), None, amtcol)>>
    \o [i \in 1..Len(rows) |-> BRow(rows[i].label, rows[i].amount, amtcol)]
    \o <<BRow(Str(<<"TOTAL", " ", marker>>), Num(SumAmounts(rows)), amtcol)>>

SheetA ==
    IncomeSheet(TRUE, <<Str(W2("Rental", "Revenue")), Str(W1("Utilities")),
                        Str(<<"Gain", " ", "on", " ", "sale", " ", "of", " ", "asset">>)>>,
                1, 2, 0)

SheetB ==
    IncomeSheet(TRUE, <<Str(W2("Rental", "Revenue")), Str(W2("Industrial", "Rent")),
                        Str(W1("Advertising"))>>,
                2, 3, 0)

GridA ==
    Block("ASSETS", <<[label |-> Str(W1("CASH")), amount |-> Num(3)],
                      [label |-> Str(W1("INVENTORY")), amount |-> Num(5)]>>, 1)
    \o Block("LIABILITIES", <<[label |-> Str(W2("ACCOUNTS", "PAYABLE")), amount |-> Num(3)],
                              [label |-> Str(W2("HST", "RECOVERABLE")), amount |-> Num(5)]>>, 1)
    \o Block("EQUITY", <<[label |-> Str(W2("PRIVATE", "ACCOUNTS")), amount |-> Num(5)]>>, 1)

GridB ==
    Block("ASSETS", <<[label |-> Str(W1("CASH")), amount |-> Num(7)],
                      [label |-> Str(<<"CASH", " ", "-", " ", "US">>), amount |-> Num(1)]>>, 1)
    \o Block("LIABILITIES", <<[label |-> Str(W2("LOANS", "PAYABLE")), amount |-> Num(7)]>>, 1)
    \o Block("EQUITY", <<[label |-> Str(W1("CAPITAL")), amount |-> Num(3)]>>, 1)

\* what a parse returns: the three dicts, or that it raised
Parsed(rev, exp, inc) == [rev |-> rev, exp |-> exp, inc |-> inc, err |-> FALSE]
ParseRaised == [rev |-> EmptyDict, exp |-> EmptyDict, inc |-> EmptyDict, err |-> TRUE]

\* the three dicts of the three loops, unless one of them raised
ParsedBands(rev, exp, inc) ==
    IF rev.err \/ exp.err \/ inc.err THEN ParseRaised ELSE Parsed(rev.d, exp.d, inc.d)

\* the body of a parse once the anchors and the value column are found
ParseFrom(ws, anchors, col) ==
    IF anchors.err THEN ParseRaised
    ELSE IF anchors.rev_start = 0 \/ anchors.exp_start = 0 \/ anchors.inc_start = 0
    THEN Parsed(EmptyDict, EmptyDict, EmptyDict)
    ELSE ParsedBands(
             RangeLoop(ws, anchors.rev_start + 1, anchors.exp_start, col,
                       W2("total", "revenue"), Band(EmptyDict)),
             RangeLoop(ws, anchors.exp_start + 1, anchors.inc_start, col,
                       W3("total", "operating", "expenses"), Band(EmptyDict)),
             IncomeLoop(ws, anchors.inc_start + 1, col, Band(EmptyDict)))

parse_income_sheet_ytd(ws) == ParseFrom(ws, find_anchor_rows(ws), find_ytd_column(ws))

parse_income_sheet_month(ws) == ParseFrom(ws, find_anchor_rows(ws), find_month_column(ws))

(***************************************************************************)
(* The template workbook's sheets are written in place.  A template sheet  *)
(* is a function from the populated coordinates <<row, column>> to a cell  *)
(* with a value and a fill; any other cell is empty and unfilled.          *)
(***************************************************************************)
NoFill == [solid |-> FALSE, red |-> 0, green |-> 0, blue |-> 0]

\* PatternFill(start_color=f"FF{green:02X}00", fill_type="solid")
GradientFill(green) == [solid |-> TRUE, red |-> 255, green |-> green, blue |-> 0]

BlankCell == [value |-> None, fill |-> NoFill]

TCell(ws, r, c) == IF <<r, c>> \in DOMAIN ws THEN ws[<<r, c>>] ELSE BlankCell

\* a variant that writes every value into column 2 of the row
SetValueInOneColumn(ws, r, c, v) ==
    [x \in DOMAIN ws \cup {<<r, 2>>} |->
        IF x = <<r, 2>> THEN [value |-> v, fill |-> TCell(ws, r, 2).fill] ELSE ws[x]]

\* cell.value = v
SetValue(ws, r, c, v) ==
    [x \in DOMAIN ws \cup {<<r, c>>} |->
        IF x = <<r, c>> THEN [value |-> v, fill |-> TCell(ws, r, c).fill] ELSE ws[x]]

\* cell.fill = f
SetFill(ws, r, c, f) ==
    [x \in DOMAIN ws \cup {<<r, c>>} |->
        IF x = <<r, c>> THEN [value |-> TCell(ws, r, c).value, fill |-> f] ELSE ws[x]]

\* a number n/d as a cell value
NumQ(q) == [t |-> "num", s |-> <<>>, v |-> q.n, d |-> q.d]

Whole(v) == [n |-> v, d |-> 1]

(***************************************************************************)
(* fuzzywuzzy.  token_sort_ratio lower-cases both strings, replaces every  *)
(* non-alphanumeric character by a space, sorts the words and compares the *)
(* results: two strings with the same words score 100.  The score of two   *)
(* strings with different words is the library's: the caller of            *)
(* match_and_write's row step supplies it, one integer per candidate.      *)
(* process.extractOne returns the first candidate of maximal score.        *)
(***************************************************************************)
\* the words of a string with their multiplicities
WordCount(s, w) == Cardinality({i \in 1..Len(s) : s[i] = w})

SameWords(s1, s2) ==
    LET a == Lower(s1)
        b == Lower(s2)
        ws == {a[i] : i \in 1..Len(a)} \cup {b[i] : i \in 1..Len(b)}
    IN \A w \in ws : IsNonWord(w) \/ WordCount(a, w) = WordCount(b, w)

\* scores a caller may supply for `query` against `candidates`
ScoresFor(query, candidates, values) ==
    {sc \in [1..Len(candidates) -> values \cup {100}] :
        \A i \in 1..Len(candidates) :
            sc[i] = 100 <=> SameWords(query, candidates[i])}

\* process.extractOne(key_t, candidates, scorer=fuzz.token_sort_ratio):
\* the index of the first candidate whose score is maximal
ExtractOne(sc) ==
    CHOOSE i \in 1..Len(sc) :
        /\ \A j \in 1..Len(sc) : sc[j] <= sc[i]
        /\ \A j \in 1..(i - 1) : sc[j] < sc[i]

(***************************************************************************)
(* match_and_write.  RowTarget is what lines 480-483 decide for a row;     *)
(* MatchRow is one iteration of the loop: the sheet after it, and whether  *)
(* it raised (ZeroDivisionError at line 499 when threshold = 100).         *)
(***************************************************************************)
MinThreshold == 50
MaxThreshold == 100
DefaultThreshold == 85

\* re.search(r'\btotal\b', raw_target, re.IGNORECASE)
HasTotalWord(raw_target) == \E i \in 1..Len(raw_target) : LowerTok(raw_target[i]) = "total"

\* raw_target = (ws.cell(row=r, column=1).value or "").strip()
RawTarget(ws, r) ==
    LET cell == TCell(ws, r, 1).value IN
    IF Truthy(cell) THEN Strip(StrOf(cell)) ELSE <<>>

\* if not key_t or re.search(r'\btotal\b', raw_target, re.IGNORECASE): line 482
Skipped(raw_target, key_t) == key_t = <<>> \/ HasTotalWord(raw_target)

\* the row is skipped
SkipsRow(ws, r) == Skipped(RawTarget(ws, r), normalize_label(RawTarget(ws, r)))

\* a row that is not skipped goes to the fuzzy matcher: no exact key, candidates
Unmatched(key_t, src_dict) == ~HasKey(src_dict, key_t) /\ src_dict # EmptyDict

\* the row goes to the fuzzy matcher
NeedsScores(ws, r, src_dict) ==
    /\ ~SkipsRow(ws, r)
    /\ Unmatched(normalize_label(RawTarget(ws, r)), src_dict)

\* int(255 * ((score - threshold) / (100 - threshold)))
GreenOf(score, threshold) == (255 * (score - threshold)) \div (100 - threshold)

Went(ws) == [ws |-> ws, err |-> FALSE]
Threw(ws) == [ws |-> ws, err |-> TRUE]

KeyedRow(ws, r, key_t, src_dict, target_col_idx, threshold, sc) ==
    IF Skipped(RawTarget(ws, r), key_t) THEN Went(ws)
    ELSE IF HasKey(src_dict, key_t)
    THEN Went(SetValue(ws, r, target_col_idx, NumQ(Get(src_dict, key_t))))
    ELSE IF src_dict # EmptyDict
    THEN LET best == ExtractOne(sc)
             score == sc[best]
         IN IF score >= threshold
            THEN LET written == SetValue(ws, r, target_col_idx, NumQ(src_dict[best].v)) IN
                 IF threshold = 100 THEN Threw(written)
                 ELSE Went(SetFill(written, r, target_col_idx,
                                   GradientFill(GreenOf(score, threshold))))
            ELSE Went(SetValue(ws, r, target_col_idx, Num(0)))
    ELSE Went(SetValue(ws, r, target_col_idx, Num(0)))

MatchRow(ws, r, src_dict, target_col_idx, threshold, sc) ==
    KeyedRow(ws, r, normalize_label(RawTarget(ws, r)), src_dict, target_col_idx, threshold, sc)

(***************************************************************************)
(* The balance-sheet grid: pd.read_excel(..., header=None).  df is a       *)
(* sequence of rows, a row a sequence of cells; pandas row i is df[i+1]    *)
(* and pandas column c is position c+1.  A missing cell (NaN) is None.     *)
(* Amount columns hold floats: a marker row leaves its amount cell empty.  *)
(***************************************************************************)
UpperTok(t) ==
    CASE t = "Total" -> "TOTAL"
      [] t = "Assets" -> "ASSETS"
      [] t = "Accounts" -> "ACCOUNTS"
      [] t = "Receivable" -> "RECEIVABLE"
      [] t = "Trade" -> "TRADE"
      [] t = "Hst" -> "HST"
      [] t = "recoverable" -> "RECOVERABLE"
      [] t = "Bedford" -> "BEDFORD"
      [] t = "Beechgrove" -> "BEECHGROVE"
      [] t = "Bering" -> "BERING"
      [] t = "Dundas" -> "DUNDAS"
      [] t = "Eastern" -> "EASTERN"
      [] t = "Laird" -> "LAIRD"
      [] t = "Laird33" -> "LAIRD33"
      [] t = "Lakeshore" -> "LAKESHORE"
      [] t = "Weston" -> "WESTON"
      [] t = "Scarborough" -> "SCARBOROUGH"
      [] t = "Other" -> "OTHER"
      [] t = "fs" -> "FS"
      [] t = ".xlsx" -> ".XLSX"
      [] t = "Rental" -> "RENTAL"
      [] t = "Revenue" -> "REVENUE"
      [] t = "Merchandise" -> "MERCHANDISE"
      [] t = "Insurance" -> "INSURANCE"
      [] t = "Truck" -> "TRUCK"
      [] t = "and" -> "AND"
      [] t = "Labour" -> "LABOUR"
      [] t = "Mobile" -> "MOBILE"
      [] t = "Bad" -> "BAD"
      [] t = "Debts" -> "DEBTS"
      [] t = "Income" -> "INCOME"
      [] t = "Management" -> "MANAGEMENT"
      [] t = "fee" -> "FEE"
      [] t = "Recoveries" -> "RECOVERIES"
      [] t = "Property" -> "PROPERTY"
      [] t = "Rail" -> "RAIL"
      [] t = "Lease" -> "LEASE"
      [] t = "Loss" -> "LOSS"
      [] t = "Gain" -> "GAIN"
      [] t = "on" -> "ON"
      [] t = "Sale" -> "SALE"
      [] t = "of" -> "OF"
      [] t = "Equipment" -> "EQUIPMENT"
      [] t = "Purchase" -> "PURCHASE"
      [] t = "Advertising" -> "ADVERTISING"
      [] t = "Utilities" -> "UTILITIES"
      [] t = "Professional" -> "PROFESSIONAL"
      [] t = "Fees" -> "FEES"
      [] t = "Office" -> "OFFICE"
      [] t = "Supplies" -> "SUPPLIES"
      [] t = "Bank" -> "BANK"
      [] t = "Charges" -> "CHARGES"
      [] t = "Realty" -> "REALTY"
      [] t = "Tax" -> "TAX"
      [] t = "Maintenance" -> "MAINTENANCE"
      [] t = "Repairs" -> "REPAIRS"
      [] t = "Salaries" -> "SALARIES"
      [] t = "Benefits" -> "BENEFITS"
      [] t = "Telephone" -> "TELEPHONE"
      [] t = "Rent" -> "RENT"
      [] t = "Payment" -> "PAYMENT"
      [] t = "Minority" -> "MINORITY"
      [] t = "Interest" -> "INTEREST"
      [] t = "Legal" -> "LEGAL"
      [] t = "Mortgage" -> "MORTGAGE"
      [] t = "Loan" -> "LOAN"
      [] t = "Amortization" -> "AMORTIZATION"
      [] t = "Depreciation" -> "DEPRECIATION"
      [] t = "Expenses" -> "EXPENSES"
      [] t = "Operating" -> "OPERATING"
      [] t = "Net" -> "NET"
      [] t = "Profit" -> "PROFIT"
      [] t = "Family" -> "FAMILY"
      [] t = "to" -> "TO"
      [] t = "Head" -> "HEAD"
      [] t = "Fee" -> "FEE"
      [] t = "Security" -> "SECURITY"
      [] t = "Services" -> "SERVICES"
      [] t = "Signage" -> "SIGNAGE"
      [] OTHER -> t

\* str.upper()
Upper(s) == [i \in 1..Len(s) |-> UpperTok(s[i])]

\* a token that holds a decimal digit
\* a token made of decimal digits only
AllDigitsTok(t) ==
    t \in {"0", "1", "2", "3", "4", "5", "6", "7", "8", "9", "33", "207", "380", "2024", "2025"}

HasDigitTok(t) == AllDigitsTok(t) \/ t = "Laird33"

IsStr(cell) == cell.t = "str"

\* isinstance(x, (int, float)) and not pd.isna(x)
IsNumber(cell) == cell.t = "num"

StartsWith(s, prefix) == Len(s) >= Len(prefix) /\ SubSeq(s, 1, Len(prefix)) = prefix

\* d.pop(k, default): the map without k
Pop(d, k) == SelectSeq(d, LAMBDA e : e.k # k)

\* d.get(k, 0.0)
GetOr0(d, k) == IF HasKey(d, k) THEN Get(d, k) ELSE 0

\* the least element of a non-empty set of row numbers: matches[0]
First(rows) == CHOOSE r \in rows : \A q \in rows : r <= q

\* df[df[0] == start_label].index
StartMatches(df, start_label) == {r \in 1..Len(df) : df[r][1] = Str(start_label)}

\* df[df[0].astype(str).str.contains(total_label, na=False, case=False)].index
EndMatches(df, total_label) ==
    {r \in 1..Len(df) : IsStr(df[r][1]) /\ Contains(Upper(df[r][1].s), Upper(total_label))}

\* df.loc[start_idx + 1: end_idx - 1].reset_index(drop=True)
SectionRows(df, start_idx, end_idx) ==
    IF start_idx + 1 <= end_idx - 1 THEN SubSeq(df, start_idx + 1, end_idx - 1) ELSE <<>>

\* lines 698-704: the first column after column 0 holding a number, else 1
SumCol(section, ncols) ==
    LET numeric == {c \in 2..ncols : \E i \in 1..Len(section) : IsNumber(section[i][c])} IN
    IF numeric = {} THEN 2 ELSE First(numeric)

\* the numbers of a row's columns 1.., left to right
RowNums(row) == SelectSeq(Tail(row), IsNumber)

NonZero(nums) == SelectSeq(nums, LAMBDA c : c.v # 0)

\* nums[-1]
Last(nums) == nums[Len(nums)].v

\* any(ch.isdigit() for ch in "".join(str(x) for x in row if pd.notna(x)))
RowHasDigit(row) ==
    \E c \in 1..Len(row) :
        \/ IsNumber(row[c])
        \/ IsStr(row[c]) /\ \E k \in 1..Len(row[c].s) : HasDigitTok(row[c].s[k])

AccountsReceivable == <<"ACCOUNTS", " ", "RECEIVABLE">>

\* lines 748-758: the inner while loop of a group header, from row j
RECURSIVE GroupScan(_, _, _, _)
GroupScan(section, j, sum_col, total) ==
    IF j > Len(section) THEN [total |-> total, j |-> j]
    ELSE IF IsStr(section[j][1]) /\ ~RowHasDigit(section[j])
    THEN [total |-> total, j |-> j]
    ELSE GroupScan(section, j + 1, sum_col,
                   IF IsNumber(section[j][sum_col]) THEN total + section[j][sum_col].v
                   ELSE total)

\* one iteration of `while i < n` (lines 710-759): the result and cursor after it
ClassifyRow(section, i, sum_col, result) ==
    LET cell_i == section[i][1]
        header == Strip(cell_i.s)
        header_upper == Upper(header)
        row_nums == RowNums(section[i])
        nonzero_nums == NonZero(row_nums)
    IN IF ~IsStr(cell_i) THEN [result |-> result, i |-> i + 1]
       ELSE IF StartsWith(header_upper, AccountsReceivable) /\ header_upper # AccountsReceivable
       THEN [result |-> IF row_nums # <<>>
                        THEN Put(result, AccountsReceivable,
                                 GetOr0(result, AccountsReceivable)
                                 + (IF nonzero_nums # <<>> THEN Last(nonzero_nums) ELSE 0))
                        ELSE result,
             i |-> i + 1]
       ELSE IF header_upper = AccountsReceivable
       THEN [result |-> IF HasKey(result, AccountsReceivable) THEN result
                        ELSE Put(result, AccountsReceivable, 0),
             i |-> i + 1]
       ELSE IF nonzero_nums # <<>>
       THEN [result |-> Put(result, header, Last(nonzero_nums)), i |-> i + 1]
       ELSE LET g == GroupScan(section, i + 1, sum_col, 0) IN
            [result |-> Put(result, header, g.total), i |-> g.j]

RECURSIVE ClassifyFrom(_, _, _, _)
ClassifyFrom(section, i, sum_col, result) ==
    IF i > Len(section) THEN result
    ELSE LET step == ClassifyRow(section, i, sum_col, result) IN
         ClassifyFrom(section, step.i, sum_col, step.result)

\* a variant that reads to the last row when the total label is missing
ParseSectionToLastRow(df, start_label, total_label) ==
    IF StartMatches(df, start_label) = {} THEN EmptyDict
    ELSE LET section == SectionRows(df, First(StartMatches(df, start_label)),
                                    IF EndMatches(df, total_label) = {} THEN Len(df) + 1
                                    ELSE First(EndMatches(df, total_label)))
         IN ClassifyFrom(section, 1, SumCol(section, Len(df[1])), EmptyDict)

\* parse_section (lines 680-766)
parse_section(df, start_label, total_label) ==
    IF StartMatches(df, start_label) = {} \/ EndMatches(df, total_label) = {} THEN EmptyDict
    ELSE LET section == SectionRows(df, First(StartMatches(df, start_label)),
                                    First(EndMatches(df, total_label)))
         IN ClassifyFrom(section, 1, SumCol(section, Len(df[1])), EmptyDict)

HasToken(k, tok) == \E i \in 1..Len(k) : UpperTok(k[i]) = tok

\* d[new] = d.pop(old), when old is a key
Rename(d, old, new) == IF HasKey(d, old) THEN Put(Pop(d, old), new, Get(d, old)) ELSE d

\* lines 798-801: fold every HST-recoverable entry into acct_key
RECURSIVE FoldHst(_, _, _)
FoldHst(liabilities, acct_key, hst_keys) ==
    IF hst_keys = <<>> THEN liabilities
    ELSE FoldHst(Put(Pop(liabilities, Head(hst_keys)), acct_key,
                     GetOr0(liabilities, acct_key) + GetOr0(liabilities, Head(hst_keys))),
                 acct_key, Tail(hst_keys))

\* lines 796-809: the rewrites of the liabilities map
RelabelLiabilities(liabilities) ==
    LET keys == Keys(liabilities)
        hst_keys == SelectSeq(keys, LAMBDA k : HasToken(k, "HST") /\ HasToken(k, "RECOVERABLE"))
        acct_keys == SelectSeq(keys, LAMBDA k : Contains(Upper(k), <<"ACCOUNTS", " ", "PAYABLE">>))
        merged == IF acct_keys # <<>> THEN FoldHst(liabilities, Head(acct_keys), hst_keys)
                  ELSE IF hst_keys # <<>>
                  THEN Put(Pop(liabilities, Head(hst_keys)),
                           <<"ACCOUNTS", " ", "PAYABLE", " ", "AND", " ", "ACCRUED">>,
                           Get(liabilities, Head(hst_keys)))
                  ELSE liabilities
    IN Rename(Rename(merged, <<"LOANS", " ", "PAYABLE">>,
                     <<"Due", " ", "to", " ", "CSIT", " ", "Companies">>),
              <<"HOLDBACK", " ", "PAYABLE">>, <<"Deferred", " ", "Revenue", "/", "Deposits">>)

\* lines 811-812
RelabelAssets(assets) ==
    Rename(assets, <<"LOANS", " ", "RECEIVABLE">>,
           <<"Due", " ", "From", " ", "CSIT", " ", "Companies">>)

\* lines 814-815
RelabelEquity(equity) ==
    Rename(equity, <<"PRIVATE", " ", "ACCOUNTS">>, <<"Retained", " ", "Earnings">>)

NoSummary == [none |-> TRUE, ASSETS |-> EmptyDict, LIABILITIES |-> EmptyDict, EQUITY |-> EmptyDict]

\* "X" in df[0].values
HasMarker(df, marker) == \E r \in 1..Len(df) : df[r][1] = Str(<<marker>>)

\* a variant that parses the sections without looking for the markers
ProcessWithoutMarkerCheck(df) ==
    [none |-> FALSE,
     ASSETS |-> RelabelAssets(parse_section(df, <<"ASSETS">>, <<"TOTAL", " ", "ASSETS">>)),
     LIABILITIES |-> RelabelLiabilities(
         parse_section(df, <<"LIABILITIES">>, <<"TOTAL", " ", "LIABILITIES">>)),
     EQUITY |-> RelabelEquity(parse_section(df, <<"EQUITY">>, <<"TOTAL", " ", "EQUITY">>))]

\* process_balance_sheet_file, from the grid read at line 778 on
process_balance_sheet_file(df) ==
    IF ~HasMarker(df, "ASSETS") \/ ~HasMarker(df, "LIABILITIES") \/ ~HasMarker(df, "EQUITY")
    THEN NoSummary
    ELSE [none |-> FALSE,
          ASSETS |-> RelabelAssets(parse_section(df, <<"ASSETS">>, <<"TOTAL", " ", "ASSETS">>)),
          LIABILITIES |-> RelabelLiabilities(
              parse_section(df, <<"LIABILITIES">>, <<"TOTAL", " ", "LIABILITIES">>)),
          EQUITY |-> RelabelEquity(parse_section(df, <<"EQUITY">>, <<"TOTAL", " ", "EQUITY">>))]

(***************************************************************************)
(* Site resolution.  A file name is a token sequence such as               *)
(* <<"fs", "2025", "Weston", " ", "(", "1", ")", ".xlsx">>.                *)
(***************************************************************************)
file_year == "2025"

FsName(site) == <<"fs", file_year, site, ".xlsx">>

filename_to_header == <<
    [k |-> FsName("Bedford"), v |-> <<"Bedford">>],
    [k |-> FsName("Beechgrove"), v |-> <<"Scarborough">>],
    [k |-> FsName("Bering"), v |-> <<"380", " ", "Bering">>],
    [k |-> FsName("Dundas"), v |-> <<"Dundas">>],
    [k |-> FsName("Eastern"), v |-> <<"Eastern">>],
    [k |-> FsName("Laird"), v |-> <<"1", " ", "Laird">>],
    [k |-> FsName("Laird33"), v |-> <<"33", " ", "Laird">>],
    [k |-> FsName("Lakeshore"), v |-> <<"Lakeshore">>],
    [k |-> FsName("Weston"), v |-> <<"207", " ", "Weston">>]
>>

\* the position of the first match of \s*\(\d+\)(?=\.xlsx) in s, or 0
SuffixAt(s, i) ==
    /\ i + 3 <= Len(s)
    /\ s[i] = "(" /\ AllDigitsTok(s[i + 1]) /\ s[i + 2] = ")" /\ s[i + 3] = ".xlsx"

\* re.sub(r'\s*\(\d+\)(?=\.xlsx)', '', filename)
RECURSIVE normalize_filename(_)
normalize_filename(filename) ==
    IF \E i \in 1..Len(filename) : SuffixAt(filename, i)
    THEN LET i == First({k \in 1..Len(filename) : SuffixAt(filename, k)})
         IN RStrip(SubSeq(filename, 1, i - 1))
            \o normalize_filename(SubSeq(filename, i + 3, Len(filename)))
    ELSE filename

\* s.replace(old, ""), for the first occurrence of the tokens of old
RemoveTokens(s, old) ==
    IF Contains(s, old)
    THEN LET i == First({k \in 1..(Len(s) - Len(old) + 1) : SubSeq(s, k, k + Len(old) - 1) = old})
         IN SubSeq(s, 1, i - 1) \o SubSeq(s, i + Len(old), Len(s))
    ELSE s

\* lines 530-535: the site a file name resolves to
ResolveSite(filename) ==
    LET normalized_filename == normalize_filename(filename) IN
    IF HasKey(filename_to_header, normalized_filename)
    THEN Upper(Get(filename_to_header, normalized_filename))
    ELSE LET site == Upper(RemoveTokens(RemoveTokens(normalized_filename, <<".xlsx">>),
                                        <<"fs", file_year>>))
         IN IF site = <<"BEECHGROVE">> THEN <<"SCARBOROUGH">> ELSE site

\* sheet.max_column and sheet.max_row of a template sheet
TMaxColumn(ws) == IF DOMAIN ws = {} THEN 1 ELSE CHOOSE c \in {x[2] : x \in DOMAIN ws} :
                                                    \A x \in DOMAIN ws : x[2] <= c
TMaxRow(ws) == IF DOMAIN ws = {} THEN 1 ELSE CHOOSE r \in {x[1] : x \in DOMAIN ws} :
                                                 \A x \in DOMAIN ws : x[1] <= r

\* re.sub(r'^[\d\s]+', '', raw_hdr_upper)
RECURSIVE StripLeadingDigits(_)
StripLeadingDigits(s) ==
    IF s # <<>> /\ (AllDigitsTok(Head(s)) \/ Head(s) = " ")
    THEN StripLeadingDigits(Tail(s)) ELSE s

header_row == 5

\* lines 537-545: the first column of the header row naming the site, or 0
HeaderNames(ws, col, site) ==
    LET cell == TCell(ws, header_row, col).value
        raw_hdr_upper == IF Truthy(cell) THEN Upper(Strip(StrOf(cell))) ELSE <<>>
    IN raw_hdr_upper = site \/ StripLeadingDigits(raw_hdr_upper) = site

FindTargetCol(ws, site) ==
    LET cols == {col \in 1..TMaxColumn(ws) : HeaderNames(ws, col, site)} IN
    IF cols = {} THEN 0 ELSE First(cols)

\* "WESTON" in site
IsWeston(site) == HasToken(site, "WESTON")

\* the amounts of a variant that halves for no site
AmountsUnhalved(d, site) ==
    [i \in 1..Len(d) |-> [k |-> d[i].k, v |-> [n |-> d[i].v, d |-> 1]]]

\* lines 552-555: d[k] = d[k] / 2 for a WESTON site; amounts become n/d
Amounts(d, site) ==
    [i \in 1..Len(d) |->
        [k |-> d[i].k, v |-> [n |-> d[i].v, d |-> IF IsWeston(site) THEN 2 ELSE 1]]]

(***************************************************************************)
(* The matcher inside a run.  Scores are fixed by the strings compared:    *)
(* 100 where the scorer's definition gives 100, and otherwise `sim` for    *)
(* strings sharing a word and 0 for strings sharing none, `sim` being the  *)
(* similarity the installed matcher assigns.                               *)
(***************************************************************************)
WordSet(s) == {Lower(s)[i] : i \in {j \in 1..Len(s) : ~IsNonWord(s[j])}}

\* fuzz.token_sort_ratio(q, c)
token_sort_ratio(q, c, sim) ==
    IF SameWords(q, c) THEN 100
    ELSE IF WordSet(q) \cap WordSet(c) # {} THEN sim ELSE 0

\* fuzz.token_set_ratio(q, c)
token_set_ratio(q, c, sim) ==
    IF WordSet(q) \cap WordSet(c) = {} THEN 0
    ELSE IF WordSet(q) \subseteq WordSet(c) \/ WordSet(c) \subseteq WordSet(q) THEN 100
    ELSE sim

NoKey == <<>>

\* the source key whose value a row that is not skipped receives, or NoKey
SourceKey(key_t, src_dict, threshold, sc) ==
    IF HasKey(src_dict, key_t) THEN key_t
    ELSE IF src_dict # EmptyDict /\ sc[ExtractOne(sc)] >= threshold
    THEN src_dict[ExtractOne(sc)].k
    ELSE NoKey

\* the scores of process.extractOne for a row that is not skipped
RowScores(key_t, src_dict, sim) ==
    IF Unmatched(key_t, src_dict)
    THEN [i \in 1..Len(src_dict) |-> token_sort_ratio(key_t, src_dict[i].k, sim)]
    ELSE <<>>

\* the write of row r into target_col_idx: receiving `key`, leaving sheet ws
Wrote(tag, r, target_col_idx, key, ws) ==
    [tag |-> tag, row |-> r, col |-> target_col_idx, key |-> key,
     value |-> TCell(ws, r, target_col_idx).value]

\* match_and_write: rows r..end_row; `log` collects what each write wrote.
\* MatchKeyed is the iteration of row r with its key_t, MatchScored the same
\* with the matcher's scores, MatchWritten what follows the row's write.
RECURSIVE match_and_write(_, _, _, _, _, _, _, _, _)
RECURSIVE MatchKeyed(_, _, _, _, _, _, _, _, _, _)
RECURSIVE MatchScored(_, _, _, _, _, _, _, _, _, _, _)
RECURSIVE MatchWritten(_, _, _, _, _, _, _, _, _, _)
match_and_write(ws, r, end_row, src_dict, target_col_idx, threshold, sim, tag, log) ==
    IF r > end_row THEN [ws |-> ws, err |-> FALSE, log |-> log]
    ELSE MatchKeyed(ws, r, end_row, src_dict, target_col_idx, threshold, sim, tag, log,
                    normalize_label(RawTarget(ws, r)))

MatchKeyed(ws, r, end_row, src_dict, target_col_idx, threshold, sim, tag, log, key_t) ==
    IF Skipped(RawTarget(ws, r), key_t)
    THEN match_and_write(ws, r + 1, end_row, src_dict, target_col_idx, threshold, sim, tag, log)
    ELSE MatchScored(ws, r, end_row, src_dict, target_col_idx, threshold, sim, tag, log,
                     key_t, RowScores(key_t, src_dict, sim))

MatchScored(ws, r, end_row, src_dict, target_col_idx, threshold, sim, tag, log, key_t, sc) ==
    MatchWritten(r, end_row, src_dict, target_col_idx, threshold, sim, tag, log,
                 SourceKey(key_t, src_dict, threshold, sc),
                 KeyedRow(ws, r, key_t, src_dict, target_col_idx, threshold, sc))

MatchWritten(r, end_row, src_dict, target_col_idx, threshold, sim, tag, log, key, res) ==
    IF res.err
    THEN [ws |-> res.ws, err |-> TRUE,
          log |-> Append(log, Wrote(tag, r, target_col_idx, key, res.ws))]
    ELSE match_and_write(res.ws, r + 1, end_row, src_dict, target_col_idx, threshold, sim, tag,
                         Append(log, Wrote(tag, r, target_col_idx, key, res.ws)))

\* the hard-coded row ranges of the Income sheet: lines 557-559, 663-675
YtdRevenue == [lo |-> 6, hi |-> 16]
YtdExpenses == [lo |-> 19, hi |-> 33]
YtdIncome == [lo |-> 38, hi |-> 46]
MonthExpenses == [lo |-> 67, hi |-> 81]
MonthIncome == [lo |-> 86, hi |-> 94]

\* the monthly revenue range of a variant that reuses the YTD rows
MonthRevenueOverlapsYtd(ws) == YtdRevenue

\* lines 662-670: the monthly revenue range depends on the cell at row 53
MonthRevenue(ws) ==
    LET first_value == TCell(ws, 53, 1).value IN
    IF ~Truthy(first_value)
       \/ \E i \in 1..Len(StrOf(first_value)) : LowerTok(StrOf(first_value)[i]) = "revenue"
    THEN [lo |-> 54, hi |-> 66] ELSE [lo |-> 53, hi |-> 65]

\* one match_and_write call of a pass on t = [ws, log, err]; a raise in an
\* earlier call of the pass skips it
WriteBand(t, band, src_dict, target_col, threshold, sim, tag) ==
    IF t.err THEN t
    ELSE match_and_write(t.ws, band.lo, band.hi, src_dict, target_col, threshold, sim, tag,
                         t.log)

\* the three match_and_write calls of one pass; no column, no write
WriteBands(t, bands, dicts, target_col, threshold, sim, tag) ==
    IF target_col = 0 THEN t
    ELSE WriteBand(
             WriteBand(
                 WriteBand(t, bands[1], dicts[1], target_col, threshold, sim,
                           [tag EXCEPT !.band = "rev"]),
                 bands[2], dicts[2], target_col, threshold, sim, [tag EXCEPT !.band = "exp"]),
             bands[3], dicts[3], target_col, threshold, sim, [tag EXCEPT !.band = "inc"])

\* a pass after its parse: the returns, the halving and the writes
process_one_file(t, parsed, site, bands, threshold, sim, tag) ==
    IF parsed.err THEN [t EXCEPT !.err = TRUE]
    ELSE IF parsed.rev = EmptyDict /\ parsed.exp = EmptyDict /\ parsed.inc = EmptyDict THEN t
    ELSE WriteBands(t, bands,
                    <<Amounts(parsed.rev, site), Amounts(parsed.exp, site),
                      Amounts(parsed.inc, site)>>,
                    FindTargetCol(t.ws, site), threshold, sim, tag)

process_one_file_ytd(t, file, threshold, sim, tag) ==
    process_one_file(t, parse_income_sheet_ytd(file.income), ResolveSite(file.name),
                     <<YtdRevenue, YtdExpenses, YtdIncome>>,
                     threshold, sim, [tag EXCEPT !.pass = "ytd"])

process_one_file_month(t, file, threshold, sim, tag) ==
    process_one_file(t, parse_income_sheet_month(file.income), ResolveSite(file.name),
                     <<MonthRevenue(t.ws), MonthExpenses, MonthIncome>>,
                     threshold, sim, [tag EXCEPT !.pass = "month"])

\* the monthly pass of a file; a raise in the YTD pass skips it
ThenMonth(ytd, file, threshold, sim, tag) ==
    IF ytd.err THEN ytd ELSE process_one_file_month(ytd, file, threshold, sim, tag)

IncomeTag(idx) == [sheet |-> "Income", file |-> idx, pass |-> "", band |-> ""]

\* lines 851-864: the body of the income loop for one file; the except
\* clause swallows a raise
IncomeBody(ws, log, file, threshold, sim, idx) ==
    ThenMonth(process_one_file_ytd([ws |-> ws, log |-> log, err |-> FALSE], file,
                                   threshold, sim, IncomeTag(idx)),
              file, threshold, sim, IncomeTag(idx))

\* lines 879-882: a summary is kept under the file's entity label
KeepSummary(all_summaries, entity_label, summary, idx) ==
    IF summary.none THEN all_summaries
    ELSE Put(all_summaries, entity_label, [summary |-> summary, file |-> idx])

\* lines 870-890: the body of the balance-sheet loop for one file
BalanceBody(all_summaries, file, idx) ==
    IF HasKey(filename_to_header, normalize_filename(file.name))
    THEN KeepSummary(all_summaries, Get(filename_to_header, normalize_filename(file.name)),
                     process_balance_sheet_file(file.grid), idx)
    ELSE all_summaries

header_row_bs == 5

\* lines 894-898 and 913-917: the string cells of column 1 below the header
\* row, and of the header row, stripped
RowTexts(ws) ==
    LET rows == {r \in (header_row_bs + 1)..TMaxRow(ws) : IsStr(TCell(ws, r, 1).value)} IN
    [r \in rows |-> Strip(TCell(ws, r, 1).value.s)]

ColTexts(ws) ==
    LET cols == {c \in 1..TMaxColumn(ws) : IsStr(TCell(ws, header_row_bs, c).value)} IN
    [c \in cols |-> Strip(TCell(ws, header_row_bs, c).value.s)]

\* process.extractOne(query, choices, scorer=fuzz.token_set_ratio) over the
\* texts of `at`, then the first position holding the best text; 0 if the
\* score is below the threshold
BestPosition(query, at, threshold, sim) ==
    LET best == CHOOSE p \in DOMAIN at :
                    /\ \A q \in DOMAIN at :
                          token_set_ratio(query, at[q], sim) <= token_set_ratio(query, at[p], sim)
                    /\ \A q \in DOMAIN at :
                          q < p => token_set_ratio(query, at[q], sim)
                                       < token_set_ratio(query, at[p], sim)
    IN IF token_set_ratio(query, at[best], sim) >= threshold
       THEN First({p \in DOMAIN at : at[p] = at[best]})
       ELSE 0

\* row_by_category[category] and col_by_entity[entity_label], 0 when absent
RowByCategory(ws, category, threshold, sim) ==
    BestPosition(Strip(category), RowTexts(ws), threshold, sim)

ColByEntity(ws, entity_label, threshold, sim) ==
    BestPosition(entity_label, ColTexts(ws), threshold, sim)

\* f"=({amount})/2": the formula cell Excel evaluates to amount / 2
HalfFormula(amount) == [t |-> "formula", s |-> <<>>, v |-> amount, d |-> 2]

\* lines 938-942
BalanceValue(entity_label, amount) ==
    IF entity_label = <<"207", " ", "Weston">> THEN HalfFormula(amount) ELSE Num(amount)

\* lines 936-943: the categories of one section, from position i
\* lines 937-943: one category; no row for it, no write
WriteCategory(t, row_idx, target_col, category, ws_value, tag) ==
    IF row_idx = 0 THEN t
    ELSE [t EXCEPT !.ws = SetValue(t.ws, row_idx, target_col, ws_value),
                   !.log = Append(t.log, [tag |-> tag, row |-> row_idx, col |-> target_col,
                                          key |-> category, value |-> ws_value])]

RECURSIVE WriteSection(_, _, _, _, _, _, _, _)
WriteSection(t, entity_label, section, i, target_col, threshold, sim, tag) ==
    IF i > Len(section) THEN t
    ELSE WriteSection(
             WriteCategory(t, RowByCategory(t.ws0, section[i].k, threshold, sim), target_col,
                           section[i].k, BalanceValue(entity_label, section[i].v), tag),
             entity_label, section, i + 1, target_col, threshold, sim, tag)

BalanceTag(idx) == [sheet |-> "Balance_sheet", file |-> idx, pass |-> "balance", band |-> ""]

\* lines 931-943: the three sections of one entity; no column for it, no write
WriteEntity(t, entity_label, summary, target_col, threshold, sim, tag) ==
    IF target_col = 0 THEN t
    ELSE WriteSection(
             WriteSection(
                 WriteSection(t, entity_label, summary.ASSETS, 1, target_col, threshold, sim,
                              [tag EXCEPT !.band = "ASSETS"]),
                 entity_label, summary.LIABILITIES, 1, target_col, threshold, sim,
                 [tag EXCEPT !.band = "LIABILITIES"]),
             entity_label, summary.EQUITY, 1, target_col, threshold, sim,
             [tag EXCEPT !.band = "EQUITY"])

\* lines 930-943: every entity of all_summaries, from position e
RECURSIVE WriteEntities(_, _, _, _, _)
WriteEntities(t, all_summaries, e, threshold, sim) ==
    IF e > Len(all_summaries) THEN t
    ELSE WriteEntities(
             WriteEntity(t, all_summaries[e].k, all_summaries[e].v.summary,
                         ColByEntity(t.ws0, all_summaries[e].k, threshold, sim),
                         threshold, sim, BalanceTag(all_summaries[e].v.file)),
             all_summaries, e + 1, threshold, sim)

\* lines 892-943: the mappings are built from the sheet before any write
WriteBalanceSheet(ws, log, all_summaries, threshold, sim) ==
    WriteEntities([ws |-> ws, ws0 |-> ws, log |-> log], all_summaries, 1, threshold, sim)

(***************************************************************************)
(* st.session_state.processing_logs.  An entry is the file it is about and *)
(* the message's fixed text; the [DEBUG] and [DIAGNOSTIC] entries are left *)
(* out.  A pass that raises appends nothing itself: the loop's except      *)
(* clause appends the error.                                               *)
(***************************************************************************)
Msg(idx, text) == [file |-> idx, msg |-> text]

NoDicts(parsed) == parsed.rev = EmptyDict /\ parsed.exp = EmptyDict /\ parsed.inc = EmptyDict

\* process_one_file_ytd, lines 527, 549 and 560; `after` is what the pass returned
YtdLogs(t, parsed, site, after, idx) ==
    IF parsed.err THEN <<>>
    ELSE IF NoDicts(parsed) THEN <<Msg(idx, "WARNING: anchors not found")>>
    ELSE IF FindTargetCol(t.ws, site) = 0 THEN <<Msg(idx, "WARNING: header not found")>>
    ELSE IF after.err THEN <<>>
    ELSE <<Msg(idx, "YTD data written")>>

\* parse_income_sheet_month, line 350
MonthParseLogs(anchors, idx) ==
    IF ~anchors.err
       /\ (anchors.rev_start = 0 \/ anchors.exp_start = 0 \/ anchors.inc_start = 0)
    THEN <<Msg(idx, "[ERROR] Missing anchor rows")>>
    ELSE <<>>

\* process_one_file_month, line 677: the returns of lines 633 and 655 log nothing
MonthLogs(t, parsed, site, after, idx) ==
    IF parsed.err \/ NoDicts(parsed) \/ FindTargetCol(t.ws, site) = 0 \/ after.err THEN <<>>
    ELSE <<Msg(idx, "Monthly data written")>>

\* a variant whose except clause logs nothing
IncomeErrorsUnlogged(raised, idx) == <<>>

\* line 864: the except clause of the income loop
IncomeErrorLogs(raised, idx) == IF raised THEN <<Msg(idx, "ERROR processing")>> ELSE <<>>

\* the entries of the monthly pass of a file and of the except clause
LogsAfterMonth(ytd, month, file, idx) ==
    MonthParseLogs(find_anchor_rows(file.income), idx)
    \o MonthLogs(ytd, parse_income_sheet_month(file.income), ResolveSite(file.name), month, idx)
    \o IncomeErrorLogs(month.err, idx)

\* the entries of the YTD pass of a file and of what follows it
LogsAfterYtd(t, ytd, file, threshold, sim, idx) ==
    YtdLogs(t, parse_income_sheet_ytd(file.income), ResolveSite(file.name), ytd, idx)
    \o (IF ytd.err THEN IncomeErrorLogs(TRUE, idx)
        ELSE LogsAfterMonth(ytd, ThenMonth(ytd, file, threshold, sim, IncomeTag(idx)),
                            file, idx))

\* lines 851-864: what one iteration of the income loop appends
IncomeLogs(ws, log, file, threshold, sim, idx) ==
    LogsAfterYtd([ws |-> ws, log |-> log, err |-> FALSE],
                 process_one_file_ytd([ws |-> ws, log |-> log, err |-> FALSE], file,
                                      threshold, sim, IncomeTag(idx)),
                 file, threshold, sim, idx)

\* parse_section, lines 685 and 692
SectionLogs(df, start_label, total_label, idx) ==
    IF StartMatches(df, start_label) = {} THEN <<Msg(idx, "WARNING: Could not find start")>>
    ELSE IF EndMatches(df, total_label) = {} THEN <<Msg(idx, "WARNING: Could not find total")>>
    ELSE <<>>

\* process_balance_sheet_file, lines 781-793
SummaryLogs(df, idx) ==
    IF ~HasMarker(df, "ASSETS") \/ ~HasMarker(df, "LIABILITIES") \/ ~HasMarker(df, "EQUITY")
    THEN <<Msg(idx, "WARNING: section not found")>>
    ELSE SectionLogs(df, <<"ASSETS">>, <<"TOTAL", " ", "ASSETS">>, idx)
         \o SectionLogs(df, <<"LIABILITIES">>, <<"TOTAL", " ", "LIABILITIES">>, idx)
         \o SectionLogs(df, <<"EQUITY">>, <<"TOTAL", " ", "EQUITY">>, idx)

\* lines 870-890: what one iteration of the balance-sheet loop appends
BalanceLogs(file, idx) ==
    IF HasKey(filename_to_header, normalize_filename(file.name))
    THEN SummaryLogs(file.grid, idx)
    ELSE <<>>

\* line 932, for the entities at the positions `skipped` of all_summaries
EntityLogs(all_summaries, skipped) ==
    [i \in 1..Len(skipped) |->
        Msg(all_summaries[skipped[i]].v.file, "Warning: Column not found")]

\* lines 930-933: what the writes into Balance_sheet append
ColumnLogs(ws, all_summaries, threshold, sim) ==
    EntityLogs(all_summaries,
               SelectSeq([e \in 1..Len(all_summaries) |-> e],
                         LAMBDA e : ColByEntity(ws, all_summaries[e].k, threshold, sim) = 0))

(***************************************************************************)
(* Budget data (lines 945-1001).  df is the sheet 'Consolidated            *)
(* {file_year}' read with header=None: a sequence of rows of fifteen       *)
(* cells, an empty cell being NaN; columns are counted from 0 as in the    *)
(* code, rows from 1.                                                      *)
(***************************************************************************)
months == <<"Jan", "Feb", "Mar", "Apr", "May", "Jun", "Jul", "Aug", "Sep", "Oct", "Nov", "Dec">>

FileYearNumber == 2025

NaN == [t |-> "nan", s |-> <<>>, v |-> 0, d |-> 1]

\* df.iloc[r, c]
DfCell(df, r, c) == df[r][c + 1]

Digits == {"0", "1", "2", "3", "4", "5", "6", "7", "8", "9"}

DigitValue(t) ==
    CASE t = "0" -> 0 [] t = "1" -> 1 [] t = "2" -> 2 [] t = "3" -> 3 [] t = "4" -> 4
      [] t = "5" -> 5 [] t = "6" -> 6 [] t = "7" -> 7 [] t = "8" -> 8 [] t = "9" -> 9

\* pd.to_numeric(x, errors='coerce') of one cell: a number stays, a text
\* that spells a number is parsed, anything else is NaN
to_numeric(cell) ==
    IF cell.t = "num" THEN Num(cell.v)
    ELSE IF cell.t = "str" /\ Len(Strip(cell.s)) = 1 /\ Strip(cell.s)[1] \in Digits
    THEN Num(DigitValue(Strip(cell.s)[1]))
    ELSE NaN

\* pd.to_numeric(df.iloc[r, lo:hi + 1], errors='coerce').sum(skipna=True)
RECURSIVE SumNumeric(_, _, _)
SumNumeric(row, lo, hi) ==
    IF lo > hi THEN 0
    ELSE (IF to_numeric(row[lo + 1]).t = "num" THEN to_numeric(row[lo + 1]).v ELSE 0)
         + SumNumeric(row, lo + 1, hi)

\* x + y of two floats
AddNum(x, y) == IF x.t = "nan" \/ y.t = "nan" THEN NaN ELSE Num(x.v + y.v)

AddTuple(x, y) == [i \in DOMAIN x |-> AddNum(x[i], y[i])]

\* line 965: df[(df[0] == file_year) & (df[2] == 'Jan')].index
HdrRows(df) ==
    {r \in 1..Len(df) : DfCell(df, r, 0) = Num(FileYearNumber) /\ DfCell(df, r, 2) = Str(<<"Jan">>)}

\* line 966: df.iloc[hdr, 2:14].tolist()
MonthCells(df, hdr) == [i \in 1..12 |-> DfCell(df, hdr, i + 1)]

\* the positions of a month in the header, counted from 1
MonthAt(ms, m) == {i \in 1..Len(ms) : ms[i] = Str(<<m>>)}

Greatest(S) == CHOOSE x \in S : \A y \in S : y <= x

\* lines 967-969: month_to_col[m], a later column replacing an earlier
\* one of the same month; 0 stands for KeyError
MonthToCol(ms, m) == IF MonthAt(ms, m) = {} THEN 0 ELSE Greatest(MonthAt(ms, m)) + 1

\* line 999: months.index(selected_month) + 1
MonthsCount(ms, m) == First(MonthAt(ms, m))

\* df[df[0] == label].index
LabelRows(df, label) == {r \in 1..Len(df) : DfCell(df, r, 0) = Str(label)}

RentalRevenue == W2("Rental", "Revenue")
NetProfit == <<"NET", " ", "PROFIT", "/", "(", "LOSS", ")">>
NetRentalIncome == <<"NET", " ", "RENTAL", " ", "INCOME", " ", "(", "LOSS", ")">>

\* lines 972-974
BudgetEndLabel(df) == IF LabelRows(df, NetProfit) # {} THEN NetProfit ELSE NetRentalIncome

\* line 977: month_to_col[months[-1]] + 1
TotalCol(ms) == Greatest({i \in 1..Len(ms) : ms[i] = ms[Len(ms)]}) + 2

\* a variant whose YTD value is the sum of the twelve months
BudgetTripleOfYear(row, sel_col, total_col) ==
    <<to_numeric(row[sel_col + 1]), Num(SumNumeric(row, 2, 13)), to_numeric(row[total_col + 1])>>

\* line 986: the triple of one labelled row
BudgetTriple(row, sel_col, total_col) ==
    <<to_numeric(row[sel_col + 1]), Num(SumNumeric(row, 2, sel_col)), to_numeric(row[total_col + 1])>>

\* lines 980-986: rows r .. last of the sheet
RECURSIVE BudgetRows(_, _, _, _, _, _)
BudgetRows(df, r, last, sel_col, total_col, results) ==
    IF r > last THEN results
    ELSE IF IsStr(DfCell(df, r, 0))
    THEN BudgetRows(df, r + 1, last, sel_col, total_col,
                    Put(results, Strip(DfCell(df, r, 0).s), BudgetTriple(df[r], sel_col, total_col)))
    ELSE BudgetRows(df, r + 1, last, sel_col, total_col, results)

MortgageLoanInterest == <<"Mortgage", " ", "/", "Loan", " ", "Interest">>
LoanInterestCsit ==
    <<"Loan", " ", "Interest", " ", "(", "CSIT", " ", "to", " ", "Family", " ", "Mortgage", ")">>
CpRailLease == <<"CP", " ", "Rail", " ", "Lease", " ", "(", "Laird", ")">>
RentPud == <<"Rent", " ", "PUD", "/", "CSITPM", " ", "Head", " ", "Office">>

\* lines 989-997 and 1043-1050: the two lines become one, stored last
MergePair(d, k1, k2) ==
    IF HasKey(d, k1) /\ HasKey(d, k2)
    THEN Put(Pop(Pop(d, k1), k2), k1, AddTuple(Get(d, k1), Get(d, k2)))
    ELSE d

MergePairs(d) ==
    MergePair(MergePair(d, MortgageLoanInterest, LoanInterestCsit), CpRailLease, RentPud)

AmortizationRate == 26500
DepreciationRate == 121963

\* lines 1000-1001
FixedLine(rate, months_count) == <<Num(rate), Num(rate * months_count), Num(rate * 12)>>

\* a variant that keeps a line the sheet holds
InjectFixedIfAbsent(results, months_count) ==
    IF HasKey(results, W1("Amortization")) \/ HasKey(results, W1("Depreciation"))
    THEN results
    ELSE Put(Put(results, W1("Amortization"), FixedLine(AmortizationRate, months_count)),
             W1("Depreciation"), FixedLine(DepreciationRate, months_count))

\* lines 1000-1001 on the results of the sheet
InjectFixed(results, months_count) ==
    Put(Put(results, W1("Amortization"), FixedLine(AmortizationRate, months_count)),
        W1("Depreciation"), FixedLine(DepreciationRate, months_count))

\* lines 965-975: one of the lookups raises (IndexError, KeyError)
BudgetRaises(df, selected_month) ==
    \/ HdrRows(df) = {}
    \/ MonthToCol(MonthCells(df, First(HdrRows(df))), selected_month) = 0
    \/ LabelRows(df, RentalRevenue) = {}
    \/ LabelRows(df, BudgetEndLabel(df)) = {}

ExtractBudget(df, ms, selected_month) ==
    InjectFixed(
        MergePairs(BudgetRows(df, First(LabelRows(df, RentalRevenue)),
                              First(LabelRows(df, BudgetEndLabel(df))),
                              MonthToCol(ms, selected_month), TotalCol(ms), EmptyDict)),
        MonthsCount(ms, selected_month))

\* lines 965-1001: results, for a sheet on which nothing raises
BudgetResults(df, selected_month) ==
    ExtractBudget(df, MonthCells(df, First(HdrRows(df))), selected_month)

(***************************************************************************)
(* process.extractOne(query, choices) with the default scorer fuzz.WRatio  *)
(* and the default processor utils.full_process (lines 1023-1030, 1131,    *)
(* 1150).                                                                  *)
(***************************************************************************)
\* utils.full_process: non-alphanumeric characters become spaces, then
\* lower(), then strip()
full_process(s) == Strip(Lower([i \in 1..Len(s) |-> IF IsNonWord(s[i]) THEN " " ELSE s[i]]))

\* fuzz.WRatio(q, c): 100 for texts equal after processing, 0 when a
\* processed text is empty; `sim` is what the library reports for texts
\* that differ and share a word
WRatio(q, c, sim) ==
    IF full_process(q) = <<>> \/ full_process(c) = <<>> THEN 0
    ELSE IF full_process(q) = full_process(c) THEN 100
    ELSE IF WordSet(q) \cap WordSet(c) # {} THEN sim
    ELSE 0

\* the scores of the choices i .. last, in order
RECURSIVE WScores(_, _, _, _)
WScores(query, choices, sim, i) ==
    IF i > Len(choices) THEN <<>>
    ELSE <<WRatio(query, choices[i], sim)>> \o WScores(query, choices, sim, i + 1)

\* what process.extractOne returns for these scores: the first choice of
\* maximal score, and its score
Best(choices, sc) == [choice |-> choices[ExtractOne(sc)], score |-> sc[ExtractOne(sc)]]

\* process.extractOne(query, choices); choices is not empty
extractOne(query, choices, sim) == Best(choices, WScores(query, choices, sim, 1))

(***************************************************************************)
(* Last year's income statement (lines 1003-1050).  df_last is the sheet   *)
(* 'Income_statement' read with header=None: rows of eight cells.          *)
(***************************************************************************)
\* line 1021: df_last[0].dropna().astype(str).tolist()
RECURSIVE Col0From(_, _)
Col0From(df, r) ==
    IF r > Len(df) THEN <<>>
    ELSE IF DfCell(df, r, 0).t = "nan" THEN Col0From(df, r + 1)
    ELSE <<StrOf(DfCell(df, r, 0))>> \o Col0From(df, r + 1)

Col0(df) == Col0From(df, 1)

RentalIncomeQuery == W2("RENTAL", "INCOME")

\* lines 1028-1030: the end label and its score
EndChoice(first, col0, sim) ==
    IF first.score >= 95 THEN first ELSE extractOne(NetRentalIncome, col0, sim)

\* a variant that accepts any end label
MatchRaisesOnStartOnly(df, start, end) ==
    \/ start.score < 95
    \/ LabelRows(df, start.choice) = {}
    \/ LabelRows(df, end.choice) = {}

\* lines 1024-1033 for the matches found: the two ValueErrors, and
\* IndexError when the matched text is not the text of a cell
MatchRaises(df, start, end) ==
    \/ start.score < 95
    \/ end.score < 95
    \/ LabelRows(df, start.choice) = {}
    \/ LabelRows(df, end.choice) = {}

\* lines 1023-1033: TypeError when column 0 holds nothing
LastRaises(df, col0, sim) ==
    \/ col0 = <<>>
    \/ MatchRaises(df, extractOne(RentalIncomeQuery, col0, sim),
                   EndChoice(extractOne(NetProfit, col0, sim), col0, sim))

\* lines 1036-1041: rows r .. last of the sheet
RECURSIVE LastRows(_, _, _, _)
LastRows(df, r, last, last_results) ==
    IF r > last THEN last_results
    ELSE IF IsStr(DfCell(df, r, 0))
    THEN LastRows(df, r + 1, last,
                  Put(last_results, Strip(DfCell(df, r, 0).s),
                      <<to_numeric(DfCell(df, r, 1)), to_numeric(DfCell(df, r, 7))>>))
    ELSE LastRows(df, r + 1, last, last_results)

RowsBetween(df, start, end) ==
    MergePairs(LastRows(df, First(LabelRows(df, start.choice)), First(LabelRows(df, end.choice)),
                        EmptyDict))

ExtractLast(df, col0, sim) ==
    RowsBetween(df, extractOne(RentalIncomeQuery, col0, sim),
                EndChoice(extractOne(NetProfit, col0, sim), col0, sim))

\* lines 1021-1050: last_results, for a sheet on which nothing raises
LastResults(df, sim) == ExtractLast(df, Col0(df), sim)

(***************************************************************************)
(* The final write into the template's Income_statement sheet (lines       *)
(* 1052-1167).                                                             *)
(***************************************************************************)
\* None as the value of an alias
NoTarget == <<"<None>">>

label_map == <<
    [k |-> <<"Rental", " ", "Revenue">>,
     v |-> <<"RENTAL", " ", "INCOME">>],
    [k |-> <<"Merchandise", " ", "Revenue">>,
     v |-> <<"MERCHANDISE", " ", "INCOME">>],
    [k |-> <<"Insurance", " ", "Revenue">>,
     v |-> <<"INSURANCE", " ", "INCOME">>],
    [k |-> <<"Truck", " ", "Rental">>,
     v |-> <<"TRUCK", " ", "RENTAL">>],
    [k |-> <<"Truck", " ", "and", " ", "Labour", " ", "(", "Mobile", ")">>,
     v |-> NoTarget],
    [k |-> <<"Bad", " ", "Debts">>,
     v |-> <<"LESS", ":", " ", "BAD", " ", "DEBTS">>],
    [k |-> <<"Other", " ", "Income">>,
     v |-> <<"OTHER", " ", "INCOME">>],
    [k |-> <<"Management", " ", "fee", " ", "(", "Weston", ")">>,
     v |-> <<"MANAGEMENT", " ", "FEE">>],
    [k |-> <<"Recoveries", " ", "(", "Weston", ")">>,
     v |-> <<"RECOVERIES">>],
    [k |-> <<"Property", " ", "Management", " ", "fee", " ", "-", " ", "Bedford", ",">>,
     v |-> <<"PROPERTY", " ", "MGT", ".", " ", "FEE">>],
    [k |-> <<"CP", " ", "Rail", " ", "Lease", " ", "(", "Laird", ")">>,
     v |-> <<"RENT">>],
    [k |-> <<"Loss", " ", "(", "Gain", ")", " ", "on", " ", "Sale", " ", "of", " ", "Equipment">>,
     v |-> <<"(", "GAIN", ")", "/", "LOSS", " ", "ON", " ", "INVESTMENT">>],
    [k |-> <<"Merchandise", " ", "Purchase">>,
     v |-> <<"MERCHANDISE">>],
    [k |-> <<"Advertising">>,
     v |-> <<"ADVERTISING">>],
    [k |-> <<"Utilities">>,
     v |-> <<"UTILITIES">>],
    [k |-> <<"Insurance">>,
     v |-> <<"INSURANCE">>],
    [k |-> <<"Professional", " ", "Fees">>,
     v |-> <<"PROFESSIONAL", " ", "FEES">>],
    [k |-> <<"Office", " ", "Supplies">>,
     v |-> <<"OFFICE", " ", "SUPPLIES">>],
    [k |-> <<"Bank", " ", "Charges">>,
     v |-> <<"BANK", " ", "CHARGES">>],
    [k |-> <<"Realty", " ", "Tax">>,
     v |-> <<"REALTY", " ", "TAXES">>],
    [k |-> <<"Maintenance", " ", "&", " ", "Repairs">>,
     v |-> <<"MAINTENANCE", " ", "&", " ", "REPAIRS">>],
    [k |-> <<"Salaries", " ", "&", " ", "Benefits">>,
     v |-> <<"SALARIES", " ", "&", " ", "BENEFITS">>],
    [k |-> <<"Telephone">>,
     v |-> <<"TELEPHONE">>],
    [k |-> <<"Rent">>,
     v |-> <<"RENT">>],
    [k |-> <<"Lakeshore", " ", "Rent", " ", "Payment">>,
     v |-> <<"LEASE", " ", "PAYMENT">>],
    [k |-> <<"Minority", " ", "Interest">>,
     v |-> <<"MINORITY", " ", "INTEREST">>],
    [k |-> <<"Legal", " ", "Fees">>,
     v |-> <<"LEGAL", " ", "FEES">>],
    [k |-> <<"Mortgage", " ", "/", "Loan", " ", "Interest">>,
     v |-> <<"MORTGAGE", "/", "LOAN", " ", "INTEREST">>],
    [k |-> <<"Amortization">>,
     v |-> <<"AMORTIZATION">>],
    [k |-> <<"Depreciation">>,
     v |-> <<"DEPRECIATION">>],
    [k |-> <<"TOTAL", " ", "REVENUE">>,
     v |-> NoTarget],
    [k |-> <<"TOTAL", " ", "OPERATING", " ", "EXPENSES">>,
     v |-> NoTarget],
    [k |-> <<"NET", " ", "OPERATING", " ", "INCOME", " ", "(", "LOSS", ")">>,
     v |-> NoTarget],
    [k |-> <<"NET", " ", "RENTAL", " ", "INCOME", " ", "(", "LOSS", ")">>,
     v |-> NoTarget],
    [k |-> <<"NET", " ", "PROFIT", "/", "(", "LOSS", ")">>,
     v |-> NoTarget]
>>

skip_labels == {
    <<"TOTAL", " ", "REVENUE">>,
    <<"TOTAL", " ", "OPERATING", " ", "EXPENSES">>,
    <<"NET", " ", "OPERATING", " ", "INCOME", " ", "(", "LOSS", ")">>,
    <<"NET", " ", "RENTAL", " ", "INCOME", " ", "(", "LOSS", ")">>
}

COL_BUDGET_MONTH == 3
COL_BUDGET_YTD == 9
COL_ANNUAL == 15
COL_LAST_MONTH == 5
COL_LAST_YTD == 11

THRESHOLD == 95

\* lines 1117-1120, from entry i of label_map
RECURSIVE NormMapFrom(_)
NormMapFrom(i) ==
    IF i > Len(label_map) THEN <<>>
    ELSE <<[k |-> Upper(Strip(label_map[i].k)) \o <<>>,
            v |-> IF label_map[i].v = NoTarget \/ label_map[i].v = <<>>
                  THEN NoTarget ELSE Upper(Strip(label_map[i].v)) \o <<>>]>>
         \o NormMapFrom(i + 1)

norm_map == NormMapFrom(1)

\* lines 1059-1063: rows r .. max_row of column A
RECURSIVE TemplateRowsFrom(_, _, _)
TemplateRowsFrom(ws, r, acc) ==
    IF r > TMaxRow(ws) THEN acc
    ELSE IF IsStr(TCell(ws, r, 1).value)
    THEN TemplateRowsFrom(ws, r + 1, Put(acc, Upper(Strip(TCell(ws, r, 1).value.s)), r))
    ELSE TemplateRowsFrom(ws, r + 1, acc)

template_rows(ws) == TemplateRowsFrom(ws, 1, EmptyDict)

\* lines 1132-1135 and 1151-1154
FuzzyTarget(best) == IF best.score >= THRESHOLD THEN best.choice ELSE NoTarget

\* lines 1126-1135 and 1145-1154: the label a key resolves to; NoTarget
\* for an alias to None and for a key that nothing matches
Resolve(key, rows, sim) ==
    IF HasKey(norm_map, key) THEN Get(norm_map, key)
    ELSE IF HasKey(rows, key) THEN key
    ELSE FuzzyTarget(extractOne(key, Keys(rows), sim))

\* process.extractOne returns None on no choice and the unpacking raises
ResolveRaises(key, rows) == ~HasKey(norm_map, key) /\ ~HasKey(rows, key) /\ rows = EmptyDict

\* `not tmpl`
Falsy(tmpl) == tmpl = NoTarget \/ tmpl = <<>>

\* lines 1136-1137 for one entry whose key resolved to tmpl
MapOne(last_mapped, tmpl, pair) ==
    IF Falsy(tmpl) \/ tmpl \in skip_labels THEN last_mapped ELSE Put(last_mapped, tmpl, pair)

\* lines 1124-1137, from entry i of last_results; err when extractOne has
\* no choice
RECURSIVE LastMapped(_, _, _, _, _)
LastMapped(last_results, i, rows, sim, acc) ==
    IF i > Len(last_results) \/ acc.err THEN acc
    ELSE IF ResolveRaises(Upper(Strip(last_results[i].k)), rows)
    THEN [acc EXCEPT !.err = TRUE]
    ELSE LastMapped(last_results, i + 1, rows, sim,
                    [d |-> MapOne(acc.d, Resolve(Upper(Strip(last_results[i].k)), rows, sim),
                                  last_results[i].v),
                     err |-> FALSE])

\* one ws.cell(row, column).value = float(x)
Write(row, col, x) == [row |-> row, col |-> col, value |-> x]

\* lines 1160-1167: the writes of one budget result into its row
RowWrites(row, triple, lbl, last_mapped) ==
    <<Write(row, COL_BUDGET_MONTH, triple[1]), Write(row, COL_BUDGET_YTD, triple[2]),
      Write(row, COL_ANNUAL, triple[3])>>
    \o (IF HasKey(last_mapped, lbl)
        THEN <<Write(row, COL_LAST_MONTH, Get(last_mapped, lbl)[1]),
               Write(row, COL_LAST_YTD, Get(last_mapped, lbl)[2])>>
        ELSE <<>>)

\* the writes into one cell, as positions of `writes`
WritesAt(writes, x) == {i \in 1..Len(writes) : writes[i].row = x[1] /\ writes[i].col = x[2]}

\* the sheet after the writes, in order: a cell holds what was written
\* into it last and keeps its fill
ApplyWrites(ws, writes) ==
    [x \in DOMAIN ws \cup {<<writes[i].row, writes[i].col>> : i \in 1..Len(writes)} |->
        IF WritesAt(writes, x) = {} THEN ws[x]
        ELSE [value |-> writes[Greatest(WritesAt(writes, x))].value,
              fill |-> TCell(ws, x[1], x[2]).fill]]

\* lines 1142-1157: the result is passed over
Passed(lbl) == lbl = NoTarget \/ lbl \in skip_labels

\* lines 1140-1167, from entry i of results: the writes made, and err on
\* the KeyError of line 1159 and when extractOne has no choice
RECURSIVE WriteResults(_, _, _, _, _, _)
WriteOne(results, i, rows, last_mapped, sim, st, lbl) ==
    IF Passed(lbl) THEN WriteResults(results, i + 1, rows, last_mapped, sim, st)
    ELSE IF ~HasKey(rows, lbl) THEN [written |-> st.written, err |-> TRUE]
    ELSE WriteResults(results, i + 1, rows, last_mapped, sim,
                      [written |-> st.written \o RowWrites(Get(rows, lbl), results[i].v, lbl, last_mapped),
                       err |-> FALSE])

WriteResults(results, i, rows, last_mapped, sim, st) ==
    IF i > Len(results) \/ st.err THEN st
    ELSE IF ResolveRaises(Upper(Strip(results[i].k)), rows)
    THEN [written |-> st.written, err |-> TRUE]
    ELSE WriteOne(results, i, rows, last_mapped, sim, st,
                  Resolve(Upper(Strip(results[i].k)), rows, sim))

WriteMapped(results, rows, mapped, sim) ==
    IF mapped.err THEN [written |-> <<>>, err |-> TRUE]
    ELSE WriteResults(results, 1, rows, mapped.d, sim, [written |-> <<>>, err |-> FALSE])

\* lines 1059-1167
final_write(ws, results, last_results, sim) ==
    WriteMapped(results, template_rows(ws),
                LastMapped(last_results, 1, template_rows(ws), sim, [d |-> EmptyDict, err |-> FALSE]),
                sim)

\* lines 715-745: the row at i reaches the group-header branch (line 747):
\* a string label that is no accounts-receivable line and has no non-zero
\* number on its row
IsGroupHeader(section, i) ==
    /\ IsStr(section[i][1])
    /\ ~StartsWith(Upper(Strip(section[i][1].s)), AccountsReceivable)
    /\ NonZero(RowNums(section[i])) = <<>>

\* the section rows the iteration at cursor i passes over before the cursor
\* is set again: the row itself, and for a group header the rows its inner
\* loop ran through (lines 749-760)
Consumed(section, i, sum_col) ==
    IF IsGroupHeader(section, i)
    THEN i..(GroupScan(section, i + 1, sum_col, 0).j - 1)
    ELSE {i}

(***************************************************************************)
(* Each specification below exercises one component; the variables of the  *)
(* other components stay idle.                                             *)
(***************************************************************************)
NormIdle ==
    /\ n_pc = "idle"
    /\ n_raw = <<>>
    /\ n_once = <<>>
    /\ n_twice = <<>>

AnchIdle ==
    /\ a_pc = "idle"
    /\ a_ws = <<>>
    /\ a_res = NoAnchors

ParseIdle ==
    /\ p_pc = "idle"
    /\ p_ws = <<>>
    /\ p_ytd = ParseRaised
    /\ p_month = ParseRaised

MatchIdle ==
    /\ m_pc = "idle"
    /\ m_ws0 = <<>>
    /\ m_ws = <<>>
    /\ m_r = 0
    /\ m_dict = EmptyDict
    /\ m_threshold = DefaultThreshold
    /\ m_scores = <<>>

BalIdle ==
    /\ b_pc = "idle"
    /\ b_df = <<>>
    /\ b_summary = NoSummary

RunIdle ==
    /\ r_pc = "idle"
    /\ r_idx = 0
    /\ r_files = <<>>
    /\ r_threshold = DefaultThreshold
    /\ r_sim = 0
    /\ r_inc0 = <<>>
    /\ r_bs0 = <<>>
    /\ r_inc = <<>>
    /\ r_bs = <<>>
    /\ r_summaries = EmptyDict
    /\ r_log = <<>>
    /\ r_logs = <<>>

FinIdle ==
    /\ f_pc = "idle"
    /\ f_month = ""
    /\ f_budget = <<>>
    /\ f_last = <<>>
    /\ f_sim = 0
    /\ f_ws0 = <<>>
    /\ f_ws = <<>>
    /\ f_results = EmptyDict
    /\ f_last_results = EmptyDict
    /\ f_stage = ""
    /\ f_written = <<>>
    /\ f_ret = "none"
    /\ f_error = ""
    /\ f_output = FALSE

CurIdle ==
    /\ c_pc = "idle"
    /\ c_df = <<>>
    /\ c_section = <<>>
    /\ c_sum_col = 0
    /\ c_i = 0
    /\ c_result = EmptyDict
    /\ c_seen = <<>>

SessIdle ==
    /\ s_pc = "off"
    /\ s_run = 0
    /\ s_stage = 0
    /\ s_processed = FALSE
    /\ s_file = 0
    /\ s_logs = <<>>
    /\ s_ret = <<>>

(***************************************************************************)
(* The normalizer harness: normalize a label, then normalize the result.   *)
(***************************************************************************)
NormInit ==
    /\ n_pc = "start"
    /\ n_raw \in NormInputs
    /\ n_once = <<>>
    /\ n_twice = <<>>
    /\ AnchIdle /\ ParseIdle /\ MatchIdle /\ BalIdle /\ RunIdle /\ FinIdle /\ CurIdle /\ SessIdle

NormalizeOnce ==
    /\ n_pc = "start"
    /\ n_once' = normalize_label(n_raw)
    /\ n_pc' = "once"
    /\ UNCHANGED <<n_raw, n_twice>>
    /\ UNCHANGED <<anchVars, parseVars, matchVars, balVars, runVars, finVars, curVars, sessVars>>

NormalizeTwice ==
    /\ n_pc = "once"
    /\ n_twice' = normalize_label(n_once)
    /\ n_pc' = "twice"
    /\ UNCHANGED <<n_raw, n_once>>
    /\ UNCHANGED <<anchVars, parseVars, matchVars, balVars, runVars, finVars, curVars, sessVars>>

NormNext == NormalizeOnce \/ NormalizeTwice

SpecNorm == NormInit /\ [][NormNext]_vars

\* C1: normalize_label is idempotent: normalizing a normalized label
\* returns it unchanged, for every raw label.
C1_Idempotent == n_pc = "twice" => n_twice = n_once

(***************************************************************************)
(* The anchor harness: a sheet of at most MaxAnchorRows rows whose column  *)
(* 1 holds header words, sentinel line items or nothing.                   *)
(***************************************************************************)
AnchorLabels == {
    Str(W1("Revenue")), Str(W1("Expenses")), Str(W1("INCOME")),
    Str(W2("Rental", "Income")), Str(W1("Advertising")),
    Str(W2("Management", "Fee")), None
}

AnchorSheets ==
    {[r \in 1..Len(lab) |-> <<lab[r]>>] : lab \in SeqsUpTo(AnchorLabels, MaxAnchorRows)}

AnchInit ==
    /\ a_pc = "start"
    /\ a_ws \in AnchorSheets
    /\ a_res = NoAnchors
    /\ NormIdle /\ ParseIdle /\ MatchIdle /\ BalIdle /\ RunIdle /\ FinIdle /\ CurIdle /\ SessIdle

FindAnchors ==
    /\ a_pc = "start"
    /\ a_res' = find_anchor_rows(a_ws)
    /\ a_pc' = "done"
    /\ UNCHANGED a_ws
    /\ UNCHANGED <<normVars, parseVars, matchVars, balVars, runVars, finVars, curVars, sessVars>>

AnchNext == FindAnchors

SpecAnchors == AnchInit /\ [][AnchNext]_vars

AllAnchorsFound(a) == a.rev_start # 0 /\ a.exp_start # 0 /\ a.inc_start # 0

\* C2: whenever find_anchor_rows returns all three anchors, found by the
\* header scan or by the sentinel fallback, rev_start < exp_start < inc_start.
C2_AnchorOrder ==
    (a_pc = "done" /\ AllAnchorsFound(a_res))
        => (a_res.rev_start < a_res.exp_start /\ a_res.exp_start < a_res.inc_start)

(***************************************************************************)
(* The parse harness.  A source income sheet: a header row, then the       *)
(* Revenue, Expenses and Income header rows with at most MaxParseRows line *)
(* items spread over the three bands.  The month cell of the i-th line     *)
(* item is 2^i and its YTD cell 3^i, so a sum tells which rows went into   *)
(* it; the first line item may have empty value cells.                     *)
(***************************************************************************)
BandLabels == {
    Str(W2("Rental", "Revenue")), Str(W2("Industrial", "Rent")),
    Str(W2("Total", "Revenue")), None
}

ParseSheets ==
    {IncomeSheet(x[1], x[2], x[3], x[4], x[5]) :
        x \in {y \in BOOLEAN \X SeqsUpTo(BandLabels, MaxParseRows)
                     \X (0..MaxParseRows) \X (0..MaxParseRows) \X (0..1) :
                 y[3] <= y[4] /\ y[4] <= Len(y[2]) /\ y[5] <= Len(y[2])}}

ParseInit ==
    /\ p_pc = "start"
    /\ p_ws \in ParseSheets
    /\ p_ytd = ParseRaised
    /\ p_month = ParseRaised
    /\ NormIdle /\ AnchIdle /\ MatchIdle /\ BalIdle /\ RunIdle /\ FinIdle /\ CurIdle /\ SessIdle

ParseYtd ==
    /\ p_pc = "start"
    /\ p_ytd' = parse_income_sheet_ytd(p_ws)
    /\ p_pc' = "ytd"
    /\ UNCHANGED <<p_ws, p_month>>
    /\ UNCHANGED <<normVars, anchVars, matchVars, balVars, runVars, finVars, curVars, sessVars>>

ParseMonth ==
    /\ p_pc = "ytd"
    /\ p_month' = parse_income_sheet_month(p_ws)
    /\ p_pc' = "done"
    /\ UNCHANGED <<p_ws, p_ytd>>
    /\ UNCHANGED <<normVars, anchVars, matchVars, balVars, runVars, finVars, curVars, sessVars>>

ParseNext == ParseYtd \/ ParseMonth

SpecParse == ParseInit /\ [][ParseNext]_vars

RECURSIVE SumOver(_, _, _)
SumOver(ws, rows, col) ==
    IF rows = {} THEN 0
    ELSE LET r == CHOOSE r \in rows : TRUE
             cell == CellValue(ws, r, col)
         IN (IF cell.t = "num" THEN cell.v ELSE 0) + SumOver(ws, rows \ {r}, col)

\* the rows of a band that are neither blank nor the band's total row
RevRows(ws, a) ==
    {r \in (a.rev_start + 1)..(a.exp_start - 1) :
        /\ Truthy(CellValue(ws, r, 1))
        /\ ~SearchPhrase(StrOf(CellValue(ws, r, 1)), W2("total", "revenue"))}

ExpRows(ws, a) ==
    {r \in (a.exp_start + 1)..(a.inc_start - 1) :
        /\ Truthy(CellValue(ws, r, 1))
        /\ ~SearchPhrase(StrOf(CellValue(ws, r, 1)), W3("total", "operating", "expenses"))}

IncRows(ws, a) ==
    {r \in (a.inc_start + 1)..max_row(ws) :
        \A q \in (a.inc_start + 1)..r : ~IncomeStop(ws, q)}

RowKey(ws, r) == normalize_label(StrOf(CellValue(ws, r, 1)))

\* d holds one entry per key of `rows`, whose value is the sum of the
\* column's cells over the rows of that key
IsSumOfRows(d, ws, rows, col) ==
    /\ \A i, j \in 1..Len(d) : d[i].k = d[j].k => i = j
    /\ {d[i].k : i \in 1..Len(d)} = {RowKey(ws, r) : r \in rows}
    /\ \A i \in 1..Len(d) :
          d[i].v = SumOver(ws, {r \in rows : RowKey(ws, r) = d[i].k}, col)

BandsAreSums(res, ws, col) ==
    LET a == find_anchor_rows(ws) IN
    (~res.err /\ AllAnchorsFound(a)) =>
        /\ IsSumOfRows(res.rev, ws, RevRows(ws, a), col)
        /\ IsSumOfRows(res.exp, ws, ExpRows(ws, a), col)
        /\ IsSumOfRows(res.inc, ws, IncRows(ws, a), col)

StartRow == 6
EndRow == StartRow + MaxMatchRows - 1
TargetCol == 2

MatchLabels == {
    None, Str(W2("Rental", "Income")), Str(W1("Utilities")),
    Str(<<"Gain", "/", "Loss", " ", "on", " ", "Investment">>),
    Str(W2("Total", "Revenue")), Str(W1("Subtotal"))
}

\* the keys a parse can produce, each with its amount
DictKeys == {
    W2("rental", "income"), W1("utilities"),
    <<"gain", "/", "loss", " ", "on", " ", "investment">>
}

KeyAmount(k) ==
    CASE k = W2("rental", "income") -> 7
      [] k = W1("utilities") -> 13
      [] OTHER -> 11

MatchDicts ==
    {[i \in 1..Len(ks) |-> [k |-> ks[i], v |-> Whole(KeyAmount(ks[i]))]] :
        ks \in {s \in SeqsUpTo(DictKeys, MaxDictKeys) :
                   \A i, j \in 1..Len(s) : s[i] = s[j] => i = j}}

OldCell == [value |-> Num(9), fill |-> GradientFill(9)]

MatchTemplates ==
    {[x \in ({<<StartRow + i - 1, 1>> : i \in 1..MaxMatchRows}
             \cup (IF old THEN {<<StartRow + i - 1, TargetCol>> : i \in 1..MaxMatchRows}
                   ELSE {})) |->
         IF x[2] = 1 THEN [value |-> lab[x[1] - StartRow + 1], fill |-> NoFill]
         ELSE OldCell] :
        lab \in [1..MaxMatchRows -> MatchLabels], old \in BOOLEAN}

\* scores the matcher may give a candidate whose words differ from the query's
ScoreSamples(threshold) ==
    {s \in {0, threshold - 1, threshold, (threshold + 100) \div 2, 99} : s < 100}

MatchInit ==
    /\ m_pc = "loop"
    /\ m_ws0 \in MatchTemplates
    /\ m_ws = m_ws0
    /\ m_r = StartRow
    /\ m_dict \in MatchDicts
    /\ m_threshold \in {MinThreshold, DefaultThreshold, MaxThreshold}
    /\ m_scores = [r \in StartRow..EndRow |-> <<>>]
    /\ NormIdle /\ AnchIdle /\ ParseIdle /\ BalIdle /\ RunIdle /\ FinIdle /\ CurIdle /\ SessIdle

\* one iteration of `for r in range(start_row, end_row + 1)`
MatchStep ==
    /\ m_pc = "loop"
    /\ \E sc \in (IF NeedsScores(m_ws, m_r, m_dict)
                  THEN ScoresFor(normalize_label(RawTarget(m_ws, m_r)), Keys(m_dict),
                                 ScoreSamples(m_threshold))
                  ELSE {<<>>}) :
          LET res == MatchRow(m_ws, m_r, m_dict, TargetCol, m_threshold, sc) IN
          /\ m_ws' = res.ws
          /\ m_scores' = [m_scores EXCEPT ![m_r] = sc]
          /\ m_pc' = IF res.err THEN "raised" ELSE IF m_r = EndRow THEN "done" ELSE "loop"
          /\ m_r' = IF res.err THEN m_r ELSE m_r + 1
    /\ UNCHANGED <<m_ws0, m_dict, m_threshold>>
    /\ UNCHANGED <<normVars, anchVars, parseVars, balVars, runVars, finVars, curVars, sessVars>>

MatchNext == MatchStep

SpecMatch == MatchInit /\ [][MatchNext]_vars

\* the rows the loop has completed
Visited == {r \in StartRow..EndRow : r < m_r}

\* the call is over: it returned or it raised
CallOver == m_pc \in {"done", "raised"}

KeyOf(r) == normalize_label(RawTarget(m_ws0, r))
ExactRow(r) == ~SkipsRow(m_ws0, r) /\ HasKey(m_dict, KeyOf(r))
FuzzyRow(r) == ~SkipsRow(m_ws0, r) /\ ~HasKey(m_dict, KeyOf(r))
BestScore(r) == m_scores[r][ExtractOne(m_scores[r])]
Accepted(r) == FuzzyRow(r) /\ m_dict # EmptyDict /\ BestScore(r) >= m_threshold

IsGradientOf(fill, s, threshold) ==
    /\ fill.solid /\ fill.red = 255 /\ fill.blue = 0
    /\ fill.green \in 0..255
    /\ fill.green * (100 - threshold) <= 255 * (s - threshold)
    /\ 255 * (s - threshold) < (fill.green + 1) * (100 - threshold)
    /\ (s = threshold => fill.green = 0)
    /\ (s = 100 => fill.green = 255)

\* C3: for every configurable threshold and every accepted fuzzy score s,
\* the fill's green channel is 255*(s-threshold)/(100-threshold) truncated,
\* in 0..255 (0 at the threshold, 255 at 100), red is FF and blue 00, and
\* computing the colour never fails.
C3_Gradient ==
    /\ m_pc # "raised"
    /\ \A r \in Visited :
          Accepted(r) => IsGradientOf(TCell(m_ws, r, TargetCol).fill, BestScore(r), m_threshold)

\* C9: when the call is over, every non-skipped row of the range whose
\* normalized label is a key of the source map holds exactly the map's
\* value for that key, and its fill is what it was before the call.
C9_ExactMatch ==
    CallOver =>
        \A r \in StartRow..EndRow :
            ExactRow(r) =>
                /\ TCell(m_ws, r, TargetCol).value = NumQ(Get(m_dict, KeyOf(r)))
                /\ TCell(m_ws, r, TargetCol).fill = TCell(m_ws0, r, TargetCol).fill

\* C10: when the call is over, every non-skipped row of the range whose
\* normalized label is no key of the source map holds 0 with its fill
\* unchanged if the map is empty or the best score is below the threshold,
\* and otherwise holds the value of the first best-scoring key under a
\* gradient fill.
C10_FuzzyMatch ==
    CallOver =>
        \A r \in StartRow..EndRow :
            FuzzyRow(r) =>
                IF m_scores[r] # <<>> /\ Accepted(r)
                THEN /\ TCell(m_ws, r, TargetCol).value =
                            NumQ(m_dict[ExtractOne(m_scores[r])].v)
                     /\ TCell(m_ws, r, TargetCol).fill.solid
                     /\ TCell(m_ws, r, TargetCol).fill.red = 255
                     /\ TCell(m_ws, r, TargetCol).fill # TCell(m_ws0, r, TargetCol).fill
                ELSE /\ TCell(m_ws, r, TargetCol).value = Num(0)
                     /\ TCell(m_ws, r, TargetCol).fill = TCell(m_ws0, r, TargetCol).fill

(***************************************************************************)
(* The balance-sheet harness: grids with the three marker pairs, three     *)
(* columns (label, two amount columns of which one is used), and between   *)
(* the markers category rows, sub-lines, unlabelled rows and headers.      *)
(***************************************************************************)
AssetRows == {
    [label |-> Str(W1("CASH")), amount |-> Num(0)],
    [label |-> Str(W1("CASH")), amount |-> Num(3)],
    [label |-> Str(W1("INVENTORY")), amount |-> Num(0)],
    [label |-> Str(W1("INVENTORY")), amount |-> Num(5)],
    [label |-> Str(W2("LOANS", "RECEIVABLE")), amount |-> Num(7)],
    [label |-> Str(<<"Accounts", " ", "Receivable", " ", "-", " ", "Trade">>), amount |-> Num(4)],
    [label |-> None, amount |-> Num(2)],
    [label |-> Str(W2("FIXED", "ASSETS")), amount |-> None]
}

LiabilityRows == {
    <<>>,
    <<[label |-> Str(W2("ACCOUNTS", "PAYABLE")), amount |-> Num(3)],
      [label |-> Str(W2("HST", "RECOVERABLE")), amount |-> Num(5)]>>,
    <<[label |-> Str(W2("HST", "RECOVERABLE")), amount |-> Num(5)],
      [label |-> Str(W2("LOANS", "PAYABLE")), amount |-> Num(7)]>>,
    <<[label |-> Str(W2("HOLDBACK", "PAYABLE")), amount |-> Num(0)],
      [label |-> Str(W2("LOANS", "PAYABLE")), amount |-> Num(7)]>>
}

EquityRows == {
    <<[label |-> Str(W2("PRIVATE", "ACCOUNTS")), amount |-> Num(5)]>>,
    <<[label |-> Str(W1("CAPITAL")), amount |-> Num(3)],
      [label |-> Str(W2("PRIVATE", "ACCOUNTS")), amount |-> Num(0)]>>
}

BalanceGrids ==
    {Block("ASSETS", a, amtcol) \o Block("LIABILITIES", l, amtcol) \o Block("EQUITY", e, amtcol) :
        a \in SeqsUpTo(AssetRows, MaxSectionRows), l \in LiabilityRows, e \in EquityRows,
        amtcol \in 1..2}

BalInit ==
    /\ b_pc = "call"
    /\ b_df \in BalanceGrids
    /\ b_summary = NoSummary
    /\ NormIdle /\ AnchIdle /\ ParseIdle /\ MatchIdle /\ RunIdle /\ FinIdle /\ CurIdle /\ SessIdle

ProcessBalanceSheet ==
    /\ b_pc = "call"
    /\ b_summary' = process_balance_sheet_file(b_df)
    /\ b_pc' = "done"
    /\ UNCHANGED b_df
    /\ UNCHANGED <<normVars, anchVars, parseVars, matchVars, runVars, finVars, curVars, sessVars>>

BalNext == ProcessBalanceSheet

SpecBalance == BalInit /\ [][BalNext]_vars

\* the rows strictly between a marker and its total row
Between(df, marker) ==
    SectionRows(df, First(StartMatches(df, <<marker>>)),
                First(EndMatches(df, <<"TOTAL", " ", marker>>)))

\* a row carrying one category and its amount
CategoryRow(row) ==
    /\ IsStr(row[1])
    /\ ~StartsWith(Upper(Strip(row[1].s)), AccountsReceivable)
    /\ Len(RowNums(row)) = 1

\* every row of the section is a category row, and no category occurs twice
CategorySection(rows) ==
    /\ \A i \in 1..Len(rows) : CategoryRow(rows[i])
    /\ \A i, j \in 1..Len(rows) : rows[i][1] = rows[j][1] => i = j

\* the known amounts of a category section
KnownAmounts(rows) == [i \in 1..Len(rows) |-> [k |-> Strip(rows[i][1].s), v |-> Last(RowNums(rows[i]))]]

Entries(d) == {d[i] : i \in 1..Len(d)}

\* C5: for a grid with the three marker pairs whose sections hold one row
\* per category with its known amount (0 included), the summary maps each
\* category to exactly its known amount, up to the relabeling rules: none
\* is missing and none absorbs another row's amount.
C5_RoundTrip ==
    (/\ b_pc = "done"
     /\ CategorySection(Between(b_df, "ASSETS"))
     /\ CategorySection(Between(b_df, "LIABILITIES"))
     /\ CategorySection(Between(b_df, "EQUITY")))
    => /\ ~b_summary.none
       /\ Entries(b_summary.ASSETS) = Entries(RelabelAssets(KnownAmounts(Between(b_df, "ASSETS"))))
       /\ Entries(b_summary.LIABILITIES) =
              Entries(RelabelLiabilities(KnownAmounts(Between(b_df, "LIABILITIES"))))
       /\ Entries(b_summary.EQUITY) = Entries(RelabelEquity(KnownAmounts(Between(b_df, "EQUITY"))))

(***************************************************************************)
(* The run harness: process_all_files up to the balance-sheet writes, on   *)
(* a small template and up to MaxFiles uploaded files.                     *)
(***************************************************************************)
Labelled(r, c, text) == <<r, c>> :> [value |-> Str(text), fill |-> NoFill]

SiteHeaders ==
    Labelled(5, 2, <<"Bedford">>) @@ Labelled(5, 3, <<"207", " ", "Weston">>)
    @@ Labelled(5, 4, <<"1", " ", "Laird">>)

\* row 53 holds the band's "Revenue" heading, or already the first item
IncomeTemplate(heading) ==
    SiteHeaders
    @@ Labelled(6, 1, W2("Rental", "Income")) @@ Labelled(7, 1, W2("Other", "Income"))
    @@ Labelled(16, 1, W2("Total", "Revenue"))
    @@ Labelled(19, 1, W1("Utilities")) @@ Labelled(20, 1, W2("Management", "Fee"))
    @@ Labelled(38, 1, <<"Gain", "/", "Loss", " ", "on", " ", "Investment">>)
    @@ (IF heading
        THEN Labelled(53, 1, W1("Revenue")) @@ Labelled(54, 1, W2("Rental", "Income"))
        ELSE Labelled(53, 1, W2("Rental", "Income")) @@ Labelled(54, 1, W2("Other", "Income")))
    @@ Labelled(67, 1, W1("Utilities"))
    @@ Labelled(86, 1, <<"Gain", "/", "Loss", " ", "on", " ", "Investment">>)

BalanceTemplate ==
    SiteHeaders
    @@ Labelled(6, 1, W1("Cash")) @@ Labelled(7, 1, W1("Inventory"))
    @@ Labelled(8, 1, W2("Accounts", "Payable")) @@ Labelled(9, 1, W2("Retained", "Earnings"))

SourceFile(name, income, grid) == [name |-> name, income |-> income, grid |-> grid]

\* uploads: two listed sites, a duplicate upload, an unlisted name whose
\* site is a template header without its leading digits, and an unlisted
\* name with no header
Uploads == {
    SourceFile(FsName("Bedford"), SheetA, GridA),
    SourceFile(FsName("Weston"), SheetB, GridB),
    SourceFile(<<"fs", file_year, "Weston", " ", "(", "1", ")", ".xlsx">>, SheetA, GridA),
    SourceFile(FsName("WESTON"), SheetA, GridB),
    SourceFile(FsName("Other"), SheetB, GridA)
}

\* the threshold, and the matcher's score for strings that share a word
RunSettings == {
    [threshold |-> DefaultThreshold, sim |-> 40],
    [threshold |-> DefaultThreshold, sim |-> 90],
    [threshold |-> MaxThreshold, sim |-> 90]
}

Injective(s) == \A i, j \in 1..Len(s) : s[i] = s[j] => i = j

RunInit ==
    /\ r_pc = "income"
    /\ r_idx = 1
    /\ r_files \in {s \in SeqsUpTo(Uploads, MaxFiles) : s # <<>> /\ Injective(s)}
    /\ \E s \in RunSettings : r_threshold = s.threshold /\ r_sim = s.sim
    /\ r_inc0 \in {IncomeTemplate(heading) : heading \in BOOLEAN}
    /\ r_bs0 = BalanceTemplate
    /\ r_inc = r_inc0
    /\ r_bs = r_bs0
    /\ r_summaries = EmptyDict
    /\ r_log = <<>>
    /\ r_logs = <<>>
    /\ NormIdle /\ AnchIdle /\ ParseIdle /\ MatchIdle /\ BalIdle /\ FinIdle /\ CurIdle /\ SessIdle

\* one iteration of the income loop, lines 851-864
IncomeFile ==
    /\ r_pc = "income"
    /\ \E res \in {IncomeBody(r_inc, r_log, r_files[r_idx], r_threshold, r_sim, r_idx)} :
          /\ r_inc' = res.ws
          /\ r_log' = res.log
    /\ r_logs' = r_logs \o IncomeLogs(r_inc, r_log, r_files[r_idx], r_threshold, r_sim, r_idx)
    /\ IF r_idx = Len(r_files) THEN r_pc' = "balance" /\ r_idx' = 1
       ELSE r_pc' = r_pc /\ r_idx' = r_idx + 1
    /\ UNCHANGED <<r_files, r_threshold, r_sim, r_inc0, r_bs0, r_bs, r_summaries>>
    /\ UNCHANGED <<normVars, anchVars, parseVars, matchVars, balVars, finVars, curVars, sessVars>>

\* one iteration of the balance-sheet loop, lines 870-890
BalanceFile ==
    /\ r_pc = "balance"
    /\ r_summaries' = BalanceBody(r_summaries, r_files[r_idx], r_idx)
    /\ r_logs' = r_logs \o BalanceLogs(r_files[r_idx], r_idx)
    /\ IF r_idx = Len(r_files) THEN r_pc' = "write" /\ r_idx' = 1
       ELSE r_pc' = r_pc /\ r_idx' = r_idx + 1
    /\ UNCHANGED <<r_files, r_threshold, r_sim, r_inc0, r_bs0, r_inc, r_bs, r_log>>
    /\ UNCHANGED <<normVars, anchVars, parseVars, matchVars, balVars, finVars, curVars, sessVars>>

\* lines 892-943: the mappings and the writes into Balance_sheet
WriteBalance ==
    /\ r_pc = "write"
    /\ \E res \in {WriteBalanceSheet(r_bs, r_log, r_summaries, r_threshold, r_sim)} :
          /\ r_bs' = res.ws
          /\ r_log' = res.log
    /\ r_pc' = "done"
    /\ r_logs' = r_logs \o ColumnLogs(r_bs, r_summaries, r_threshold, r_sim)
    /\ UNCHANGED <<r_idx, r_files, r_threshold, r_sim, r_inc0, r_bs0, r_inc, r_summaries>>
    /\ UNCHANGED <<normVars, anchVars, parseVars, matchVars, balVars, finVars, curVars, sessVars>>

RunNext == IncomeFile \/ BalanceFile \/ WriteBalance

SpecRun == RunInit /\ [][RunNext]_vars

SiteOf(idx) == ResolveSite(r_files[idx].name)

\* the amount the source file holds for a logged write, as parsed
ParsedAmount(e) ==
    LET f == r_files[e.tag.file]
        inc == IF e.tag.pass = "ytd" THEN parse_income_sheet_ytd(f.income)
               ELSE parse_income_sheet_month(f.income)
        bal == process_balance_sheet_file(f.grid)
    IN CASE e.tag.band = "rev" -> Get(inc.rev, e.key)
         [] e.tag.band = "exp" -> Get(inc.exp, e.key)
         [] e.tag.band = "inc" -> Get(inc.inc, e.key)
         [] e.tag.band = "ASSETS" -> Get(bal.ASSETS, e.key)
         [] e.tag.band = "LIABILITIES" -> Get(bal.LIABILITIES, e.key)
         [] e.tag.band = "EQUITY" -> Get(bal.EQUITY, e.key)

\* the cell's amount v/d is half of p, is p
IsHalfOf(cell, p) == cell.t \in {"num", "formula"} /\ 2 * cell.v = p * cell.d
IsWhole(cell, p) == cell.t = "num" /\ cell.v = p * cell.d

\* C4: every amount a pass (YTD, monthly, balance sheet) writes from a
\* source key is half the parsed value when the file's resolved site
\* contains WESTON, and the parsed value itself for every other site.
C4_WestonHalved ==
    \A i \in 1..Len(r_log) :
        r_log[i].key # NoKey =>
            IF IsWeston(SiteOf(r_log[i].tag.file))
            THEN IsHalfOf(r_log[i].value, ParsedAmount(r_log[i]))
            ELSE IsWhole(r_log[i].value, ParsedAmount(r_log[i]))

WroteFrom(pass, weston) ==
    \E i \in 1..Len(r_log) :
        /\ r_log[i].key # NoKey
        /\ r_log[i].tag.pass = pass
        /\ IsWeston(SiteOf(r_log[i].tag.file)) = weston
        /\ ParsedAmount(r_log[i]) # 0

C4_Witness ==
    /\ r_pc = "done"
    /\ \A pass \in {"ytd", "month", "balance"} : WroteFrom(pass, TRUE) /\ WroteFrom(pass, FALSE)

CellOf(e) == <<e.tag.sheet, e.row, e.col>>

\* C7: during one run no template cell is written more than once.
C7_WrittenOnce ==
    \A i, j \in 1..Len(r_log) : CellOf(r_log[i]) = CellOf(r_log[j]) => i = j

\* C7 (amended): one file's income passes write no cell of the Income
\* sheet more than once; a cell is written again only by another file
\* that resolves to the same column, or by the balance-sheet writes.
C7_WrittenOncePerFile ==
    \A i, j \in 1..Len(r_log) :
        (CellOf(r_log[i]) = CellOf(r_log[j]) /\ i # j) =>
            \/ r_log[i].tag.sheet = "Balance_sheet"
            \/ /\ r_log[i].tag.file # r_log[j].tag.file
               /\ FindTargetCol(r_inc0, SiteOf(r_log[i].tag.file))
                      = FindTargetCol(r_inc0, SiteOf(r_log[j].tag.file))

C7_Witness ==
    /\ r_pc = "done"
    /\ \E i, j \in 1..Len(r_log) :
          /\ i # j /\ CellOf(r_log[i]) = CellOf(r_log[j])
          /\ r_log[i].tag.sheet = "Income"
    /\ \E i, j \in 1..Len(r_log) :
          /\ r_log[i].tag.file = r_log[j].tag.file
          /\ r_log[i].tag.pass = "ytd" /\ r_log[j].tag.pass = "month"

\* the template after a whole run over `files`
RECURSIVE IncomeLoopOver(_, _, _)
IncomeLoopOver(ws, files, idx) ==
    IF idx > Len(files) THEN ws
    ELSE IncomeLoopOver(IncomeBody(ws, <<>>, files[idx], r_threshold, r_sim, idx).ws,
                        files, idx + 1)

RECURSIVE BalanceLoopOver(_, _, _)
BalanceLoopOver(all_summaries, files, idx) ==
    IF idx > Len(files) THEN all_summaries
    ELSE BalanceLoopOver(BalanceBody(all_summaries, files[idx], idx), files, idx + 1)

FinalTemplate(files) ==
    [inc |-> IncomeLoopOver(r_inc0, files, 1),
     bs |-> WriteBalanceSheet(r_bs0, <<>>, BalanceLoopOver(EmptyDict, files, 1),
                              r_threshold, r_sim).ws]

Orders(files) ==
    {[i \in 1..Len(files) |-> files[p[i]]] :
        p \in {q \in [1..Len(files) -> 1..Len(files)] : Injective(q)}}

OrderIndependent ==
    \A other \in Orders(r_files) : FinalTemplate(other) = [inc |-> r_inc, bs |-> r_bs]

\* the column a file's income passes and its balance-sheet summary go to
IncomeColumn(f) == FindTargetCol(r_inc0, ResolveSite(f.name))
BalanceColumn(f) ==
    IF HasKey(filename_to_header, normalize_filename(f.name))
    THEN ColByEntity(r_bs0, Get(filename_to_header, normalize_filename(f.name)),
                     r_threshold, r_sim)
    ELSE 0

DistinctColumns ==
    \A i, j \in 1..Len(r_files) :
        i # j =>
            /\ IncomeColumn(r_files[i]) = 0 \/ IncomeColumn(r_files[i]) # IncomeColumn(r_files[j])
            /\ BalanceColumn(r_files[i]) = 0
                   \/ BalanceColumn(r_files[i]) # BalanceColumn(r_files[j])

\* C8: the template after a run is the same for every order of the files.
C8_AnyOrder == r_pc = "done" => OrderIndependent

\* C8 (amended): the template after a run is the same for every order of
\* the files when no two files resolve to the same template column.
C8_AnyOrderDistinctColumns == (r_pc = "done" /\ DistinctColumns) => OrderIndependent

C8_Witness ==
    /\ r_pc = "done" /\ DistinctColumns /\ Len(r_files) >= 2
    /\ \A idx \in 1..Len(r_files) :
          /\ \E i \in 1..Len(r_log) :
                r_log[i].tag.file = idx /\ r_log[i].tag.sheet = "Income" /\ r_log[i].key # NoKey
          /\ \E i \in 1..Len(r_log) :
                r_log[i].tag.file = idx /\ r_log[i].tag.sheet = "Balance_sheet"

(***************************************************************************)
(* The run on files that get skipped: a sheet without its Expenses anchor, *)
(* a sheet with the three anchors and no line item, a sheet with a text in *)
(* the value columns, a grid without its EQUITY marker and a grid without  *)
(* its TOTAL EQUITY row.                                                   *)
(***************************************************************************)
NoExpensesSheet ==
    <<HeaderRow(TRUE), <<Str(W1("Revenue"))>>, ItemRow(Str(W2("Rental", "Revenue")), 1, 0),
      <<Str(W1("Income"))>>, ItemRow(Str(W2("Other", "Income")), 2, 0)>>

OnlyHeadersSheet == IncomeSheet(TRUE, <<>>, 0, 0, 0)

TextValueSheet ==
    <<HeaderRow(TRUE), <<Str(W1("Revenue"))>>,
      <<Str(W2("Rental", "Revenue")), Str(W1("pending")), Str(W1("pending"))>>,
      <<Str(W1("Expenses"))>>, <<Str(W1("Income"))>>>>

NoEquityGrid ==
    Block("ASSETS", <<[label |-> Str(W1("CASH")), amount |-> Num(3)]>>, 1)
    \o Block("LIABILITIES", <<[label |-> Str(W2("LOANS", "PAYABLE")), amount |-> Num(7)]>>, 1)

NoTotalEquityGrid ==
    Block("ASSETS", <<[label |-> Str(W1("CASH")), amount |-> Num(5)]>>, 1)
    \o Block("LIABILITIES", <<[label |-> Str(W2("ACCOUNTS", "PAYABLE")), amount |-> Num(3)]>>, 1)
    \o <<BRow(Str(<<"EQUITY">>), None, 1), BRow(Str(W1("CAPITAL")), Num(3), 1)>>

SkipUploads == {
    SourceFile(FsName("Bedford"), SheetA, GridA),
    SourceFile(FsName("Weston"), NoExpensesSheet, NoEquityGrid),
    SourceFile(FsName("Laird"), OnlyHeadersSheet, NoTotalEquityGrid),
    SourceFile(FsName("Dundas"), TextValueSheet, GridB),
    SourceFile(<<"fs", file_year, "Weston", " ", "(", "1", ")", ".xlsx">>, SheetB, GridB)
}

SkipsInit ==
    /\ r_pc = "income"
    /\ r_idx = 1
    /\ r_files \in {s \in SeqsUpTo(SkipUploads, MaxFiles) : s # <<>> /\ Injective(s)}
    /\ \E s \in RunSettings : r_threshold = s.threshold /\ r_sim = s.sim
    /\ r_inc0 = IncomeTemplate(TRUE)
    /\ r_bs0 = BalanceTemplate
    /\ r_inc = r_inc0
    /\ r_bs = r_bs0
    /\ r_summaries = EmptyDict
    /\ r_log = <<>>
    /\ r_logs = <<>>
    /\ NormIdle /\ AnchIdle /\ ParseIdle /\ MatchIdle /\ BalIdle /\ FinIdle /\ CurIdle /\ SessIdle

SpecSkips == SkipsInit /\ [][RunNext]_vars

\* the income loop has run over file idx
IncomeDone(idx) == r_pc # "income" \/ idx < r_idx

Logged(idx, text) == \E i \in 1..Len(r_logs) : r_logs[i] = Msg(idx, text)

\* some cell of the Income sheet was written from file idx
WroteIncome(idx) ==
    \E i \in 1..Len(r_log) : r_log[i].tag.file = idx /\ r_log[i].tag.sheet = "Income"

AnchorMissing(ws) == ~find_anchor_rows(ws).err /\ ~AllAnchorsFound(find_anchor_rows(ws))

\* C11: for a file the income loop has run over: if one of its three
\* anchors is missing, both parses return three empty maps, the warning of
\* the caller is in the processing log and no Income cell was written from
\* the file; and if its three anchors are all found, the processing log
\* does not report its anchors as not found.
C11_MissingAnchors ==
    \A idx \in 1..Len(r_files) :
        IncomeDone(idx) =>
            /\ AnchorMissing(r_files[idx].income) =>
                  /\ NoDicts(parse_income_sheet_ytd(r_files[idx].income))
                  /\ NoDicts(parse_income_sheet_month(r_files[idx].income))
                  /\ Logged(idx, "WARNING: anchors not found")
                  /\ ~WroteIncome(idx)
            /\ AllAnchorsFound(find_anchor_rows(r_files[idx].income)) =>
                  ~Logged(idx, "WARNING: anchors not found")

(***************************************************************************)
(* The budget and prior-year stages of process_all_files, from line 945    *)
(* on: budget data, last year's income statement, the final write into     *)
(* Income_statement, and the rest of the run up to the save.               *)
(***************************************************************************)
\* the twelve monthly cells of a budget row: 1, 2, .. 12, with `cell` in
\* place of month j (j = 0: in place of none)
Monthly(j, cell) == [i \in 1..12 |-> IF i = j THEN cell ELSE Num(i)]

HolePositions == {1, 6, 12}
HoleCells == {NaN, Str(<<"n", "/", "a">>), Str(<<"5">>)}
MonthlyCells == {Monthly(0, NaN)} \cup {Monthly(j, c) : j \in HolePositions, c \in HoleCells}

BudgetHeader ==
    <<Num(FileYearNumber), NaN>> \o [i \in 1..12 |-> Str(<<months[i]>>)] \o <<Str(W1("Total"))>>

BudgetRow(label, monthly, total) == <<Str(label), NaN>> \o monthly \o <<total>>

BlankBudgetRow == [c \in 1..15 |-> NaN]

\* a sheet whose own Amortization row is replaced by the fixed line
BudgetA(monthly) == <<
    BudgetHeader,
    BudgetRow(RentalRevenue, monthly, Num(78)),
    BlankBudgetRow,
    BudgetRow(W1("Utilities"), Monthly(0, NaN), Str(<<"n", "/", "a">>)),
    BudgetRow(W1("Amortization"), Monthly(0, NaN), Num(7)),
    BudgetRow(W2("TOTAL", "REVENUE"), Monthly(0, NaN), Num(9)),
    BudgetRow(NetProfit, Monthly(0, NaN), Num(9))
>>

\* the two mortgage lines, a label that nothing matches, a label that
\* matches a template row as it is, a label close to that row, and the
\* other end label
BudgetB == <<
    BudgetHeader,
    BudgetRow(RentalRevenue, Monthly(0, NaN), Num(78)),
    BudgetRow(MortgageLoanInterest, Monthly(0, NaN), Num(78)),
    BudgetRow(LoanInterestCsit, Monthly(6, NaN), NaN),
    BudgetRow(W1("Signage"), Monthly(0, NaN), Num(78)),
    BudgetRow(W1("Security"), Monthly(0, NaN), Num(78)),
    BudgetRow(W2("Security", "Services"), Monthly(1, NaN), Num(3)),
    BudgetRow(NetRentalIncome, Monthly(0, NaN), Num(9))
>>

\* a line whose alias names a row that one of the templates lacks
BudgetC == <<
    BudgetHeader,
    BudgetRow(RentalRevenue, Monthly(0, NaN), Num(78)),
    BudgetRow(W1("Telephone"), Monthly(0, NaN), Num(78)),
    BudgetRow(NetProfit, Monthly(0, NaN), Num(9))
>>

\* no row holds the year next to 'Jan'
BudgetNoHeader == <<
    BudgetRow(RentalRevenue, Monthly(0, NaN), Num(78)),
    BudgetRow(NetProfit, Monthly(0, NaN), Num(9))
>>

Budgets == {BudgetA(m) : m \in MonthlyCells} \cup {BudgetB, BudgetC, BudgetNoHeader}

LastRow(label, am, ay) == <<Str(label), am, NaN, NaN, NaN, NaN, NaN, ay>>

BlankLastRow == [c \in 1..8 |-> NaN]

\* a line (Legal Fees) that budget sheets A, B and C do not hold
LastA == <<
    LastRow(W2("Income", "Statement"), NaN, NaN),
    LastRow(W2("RENTAL", "INCOME"), Num(4), Num(20)),
    BlankLastRow,
    LastRow(W1("UTILITIES"), Num(2), Str(<<"n", "/", "a">>)),
    LastRow(W2("LEGAL", "FEES"), Num(1), Num(6)),
    LastRow(W2("TOTAL", "REVENUE"), Num(7), Num(26)),
    LastRow(NetProfit, Num(5), Num(9))
>>

\* mixed case, the two mortgage lines, the other end label
LastB == <<
    LastRow(W2("Rental", "Income"), Num(3), Num(9)),
    LastRow(MortgageLoanInterest, Num(2), Num(8)),
    LastRow(LoanInterestCsit, Num(1), Num(2)),
    LastRow(W1("Security"), Num(1), Num(5)),
    LastRow(<<"Net", " ", "Rental", " ", "Income", " ", "(", "Loss", ")">>, Num(5), Num(9))
>>

\* no text equal to "RENTAL INCOME": the best candidate shares a word
LastNoStart == <<
    LastRow(W2("Rent", "Income"), Num(3), Num(9)),
    LastRow(W1("UTILITIES"), Num(2), Num(8)),
    LastRow(NetProfit, Num(5), Num(9))
>>

\* no text equal to either end label
LastNoEnd == <<
    LastRow(W2("RENTAL", "INCOME"), Num(3), Num(9)),
    LastRow(W1("UTILITIES"), Num(2), Num(8)),
    LastRow(W2("Net", "Profit"), Num(5), Num(9))
>>

\* column 0 is empty
LastEmpty == <<BlankLastRow, BlankLastRow>>

LastSheets == {LastA, LastB, LastNoStart, LastNoEnd, LastEmpty}

StatementTemplate ==
    Labelled(5, 1, W2("Rental", "Income")) @@ Labelled(6, 1, W1("Utilities"))
    @@ Labelled(7, 1, W1("Telephone")) @@ Labelled(8, 1, W2("Legal", "Fees"))
    @@ Labelled(9, 1, <<"Mortgage", "/", "Loan", " ", "Interest">>)
    @@ Labelled(10, 1, W1("Security")) @@ Labelled(11, 1, W1("Amortization"))
    @@ Labelled(12, 1, W1("Depreciation")) @@ Labelled(13, 1, W2("Total", "Revenue"))
    @@ Labelled(14, 1, <<"Net", " ", "Profit", "/", "(", "Loss", ")">>)

\* the same sheet with row 7 blank
TemplateNoTelephone == [x \in DOMAIN StatementTemplate \ {<<7, 1>>} |-> StatementTemplate[x]]

StatementTemplates == {StatementTemplate, TemplateNoTelephone}

\* scores of texts that differ and share a word
FinSims == {40, 96}

FinInit ==
    /\ f_pc = "budget"
    /\ f_month \in {months[i] : i \in 1..12}
    /\ f_budget \in Budgets
    /\ f_last \in LastSheets
    /\ f_sim \in FinSims
    /\ f_ws0 \in StatementTemplates
    /\ f_ws = f_ws0
    /\ f_results = EmptyDict
    /\ f_last_results = EmptyDict
    /\ f_stage = "Writing balance sheet values"
    /\ f_written = <<>>
    /\ f_ret = "none"
    /\ f_error = ""
    /\ f_output = FALSE
    /\ NormIdle /\ AnchIdle /\ ParseIdle /\ MatchIdle /\ BalIdle /\ RunIdle /\ CurIdle /\ SessIdle

\* lines 1249-1254: st.error names the stage, process_all_files returns False
Fails(stage) ==
    /\ f_pc' = "failed"
    /\ f_stage' = stage
    /\ f_error' = stage
    /\ f_ret' = "False"

\* lines 945-1001
ReadBudget ==
    /\ f_pc = "budget"
    /\ IF BudgetRaises(f_budget, f_month)
       THEN Fails("Processing budget data") /\ UNCHANGED f_results
       ELSE /\ f_results' = BudgetResults(f_budget, f_month)
            /\ f_pc' = "last"
            /\ f_stage' = "Processing budget data"
            /\ UNCHANGED <<f_error, f_ret>>
    /\ UNCHANGED <<f_month, f_budget, f_last, f_sim, f_ws0, f_ws, f_last_results, f_written, f_output>>
    /\ UNCHANGED <<normVars, anchVars, parseVars, matchVars, balVars, runVars, curVars, sessVars>>

\* lines 1003-1050
ReadLastYear ==
    /\ f_pc = "last"
    /\ IF LastRaises(f_last, Col0(f_last), f_sim)
       THEN Fails("Processing last year's income statement") /\ UNCHANGED f_last_results
       ELSE /\ f_last_results' = LastResults(f_last, f_sim)
            /\ f_pc' = "write"
            /\ f_stage' = "Processing last year's income statement"
            /\ UNCHANGED <<f_error, f_ret>>
    /\ UNCHANGED <<f_month, f_budget, f_last, f_sim, f_ws0, f_ws, f_results, f_written, f_output>>
    /\ UNCHANGED <<normVars, anchVars, parseVars, matchVars, balVars, runVars, curVars, sessVars>>

\* lines 1052-1167
WriteFinal ==
    /\ f_pc = "write"
    /\ \E res \in {final_write(f_ws, f_results, f_last_results, f_sim)} :
          /\ f_ws' = ApplyWrites(f_ws, res.written)
          /\ f_written' = res.written
          /\ IF res.err
             THEN Fails(f_stage)
             ELSE f_pc' = "finish" /\ UNCHANGED <<f_stage, f_error, f_ret>>
    /\ UNCHANGED <<f_month, f_budget, f_last, f_sim, f_ws0, f_results, f_last_results, f_output>>
    /\ UNCHANGED <<normVars, anchVars, parseVars, matchVars, balVars, runVars, curVars, sessVars>>

Yellow == [solid |-> TRUE, red |-> 255, green |-> 255, blue |-> 0]

\* lines 1169-1173
Highlight(ws, rows, lbl) == IF HasKey(rows, lbl) THEN SetFill(ws, Get(rows, lbl), 1, Yellow) ELSE ws

Highlights(ws) ==
    Highlight(Highlight(ws, template_rows(ws), W1("AMORTIZATION")),
              template_rows(ws), W1("DEPRECIATION"))

\* lines 1169-1247; last year's balance sheet is not part of this state:
\* reading it either raises, at the stage named, or the workbook is saved
TailOutcomes == {"saved", "Processing last year's balance sheet"}

Finish ==
    /\ f_pc = "finish"
    /\ f_ws' = Highlights(f_ws)
    /\ \E outcome \in TailOutcomes :
          IF outcome = "saved"
          THEN /\ f_pc' = "done"
               /\ f_stage' = "Writing last year's balance sheet values"
               /\ f_output' = TRUE
               /\ f_ret' = "True"
               /\ UNCHANGED f_error
          ELSE Fails(outcome) /\ UNCHANGED f_output
    /\ UNCHANGED <<f_month, f_budget, f_last, f_sim, f_ws0, f_results, f_last_results, f_written>>
    /\ UNCHANGED <<normVars, anchVars, parseVars, matchVars, balVars, runVars, curVars, sessVars>>

FinNext == ReadBudget \/ ReadLastYear \/ WriteFinal \/ Finish

SpecFin == FinInit /\ [][FinNext]_vars

\* last year's income statement has been processed
LastYearRead ==
    /\ f_pc \in {"write", "finish", "done", "failed"}
    /\ ~(f_pc = "failed" /\ f_error = "Processing budget data")

\* the best score of "RENTAL INCOME" is below 95, or the best scores of
\* both end labels are
LowScore(col0, sim) ==
    \/ extractOne(RentalIncomeQuery, col0, sim).score < 95
    \/ /\ extractOne(NetProfit, col0, sim).score < 95
       /\ extractOne(NetRentalIncome, col0, sim).score < 95

\* C12: once last year's income statement has been processed, if the best
\* score of "RENTAL INCOME" against its column-0 texts is below 95, or the
\* best scores of both end labels are, the run has failed at the stage
\* "Processing last year's income statement", process_all_files has
\* returned False, and no consolidated file is set.
C12_LowScoreAborts ==
    (LastYearRead /\ Col0(f_last) # <<>> /\ LowScore(Col0(f_last), f_sim)) =>
        /\ f_pc = "failed"
        /\ f_error = "Processing last year's income statement"
        /\ f_ret = "False"
        /\ ~f_output

C12_Witness ==
    /\ LastYearRead
    /\ Col0(f_last) # <<>>
    /\ extractOne(RentalIncomeQuery, Col0(f_last), f_sim).score >= 95
    /\ extractOne(NetProfit, Col0(f_last), f_sim).score < 95
    /\ extractOne(NetRentalIncome, Col0(f_last), f_sim).score = 40
    /\ f_error = "Processing last year's income statement"
    /\ f_ret = "False"

BudgetKey(i) == Upper(Strip(f_results[i].k))

\* budget result i resolves to a row that the template holds
ResolvesToRow(i) ==
    /\ ~Passed(Resolve(BudgetKey(i), template_rows(f_ws0), f_sim))
    /\ HasKey(template_rows(f_ws0), Resolve(BudgetKey(i), template_rows(f_ws0), f_sim))

RowOfBudget(i) == Get(template_rows(f_ws0), Resolve(BudgetKey(i), template_rows(f_ws0), f_sim))

\* C13: the final write does not abort the run, whatever budget labels do
\* not resolve to a row of the template, and every cell it writes lies in
\* the row of a budget label that does resolve to one.
C13_UnresolvedSkipped ==
    [][f_pc = "write" =>
          /\ f_pc' = "finish"
          /\ \A w \in 1..Len(f_written') :
                \E i \in 1..Len(f_results) : ResolvesToRow(i) /\ f_written'[w].row = RowOfBudget(i)]_vars

LastKey(j) == Upper(Strip(f_last_results[j].k))

LastTarget(j) == Resolve(LastKey(j), template_rows(f_ws0), f_sim)

\* prior-year result j resolves to a row that the template holds
LastResolvesToRow(j) ==
    /\ ~Falsy(LastTarget(j))
    /\ LastTarget(j) \notin skip_labels
    /\ HasKey(template_rows(f_ws0), LastTarget(j))

\* no later prior-year result resolves to the same label
LastOfItsRow(j) == \A k \in (j + 1)..Len(f_last_results) : LastTarget(k) # LastTarget(j)

FinalWriteDone == f_pc \in {"finish", "done"}

\* C14: after a final write that ran to its end, every prior-year result
\* that resolves to a template row (the last one, if several resolve to one
\* row) has its month value in column 5 and its YTD value in column 11 of
\* that row, whether or not a budget result resolves to the row.
C14_PriorYearWritten ==
    FinalWriteDone =>
        \A j \in 1..Len(f_last_results) :
            (LastResolvesToRow(j) /\ LastOfItsRow(j)) =>
                /\ TCell(f_ws, Get(template_rows(f_ws0), LastTarget(j)), COL_LAST_MONTH).value
                       = f_last_results[j].v[1]
                /\ TCell(f_ws, Get(template_rows(f_ws0), LastTarget(j)), COL_LAST_YTD).value
                       = f_last_results[j].v[2]

\* the budget data has been processed and nothing raised
BudgetRead == f_pc # "budget" /\ f_error # "Processing budget data"

\* the index, counted from 0, of the selected month among the twelve labels
MonthIndex == (CHOOSE i \in 1..12 : months[i] = f_month) - 1

\* a cell is numeric when it holds a number or a text that spells one
RECURSIVE SumOfCols(_, _)
SumOfCols(row, cols) ==
    IF cols = {} THEN 0
    ELSE to_numeric(row[Greatest(cols) + 1]).v + SumOfCols(row, cols \ {Greatest(cols)})

\* the numeric cells of a row among the columns lo .. hi
NumericCols(row, lo, hi) == {c \in lo..hi : to_numeric(row[c + 1]) # NaN}

\* the rows from 'Rental Revenue' to the end label
ExtractedRows ==
    {r \in First(LabelRows(f_budget, RentalRevenue))..First(LabelRows(f_budget, BudgetEndLabel(f_budget))) :
        IsStr(DfCell(f_budget, r, 0))}

\* the label of row r is not the label of a later extracted row, is not
\* one of the two pairs that are merged and is not a fixed line
OwnLine(r) ==
    /\ \A q \in ExtractedRows : q > r => Strip(DfCell(f_budget, q, 0).s) # Strip(DfCell(f_budget, r, 0).s)
    /\ Strip(DfCell(f_budget, r, 0).s)
           \notin {MortgageLoanInterest, LoanInterestCsit, CpRailLease, RentPud,
                   W1("Amortization"), W1("Depreciation")}

\* C15: with the selected month at index k of the twelve month labels,
\* the result of every extracted budget row holds, as YTD value, the sum
\* of the numeric cells of the columns 2 .. 2+k; as month value, the
\* value of column 2+k (NaN when it is not numeric); and as annual value,
\* the value of column 14, the column after December's.  The rows of the
\* two merged pairs and of the two fixed lines are set aside.
C15_BudgetColumns ==
    BudgetRead =>
        \A r \in ExtractedRows :
            OwnLine(r) =>
                /\ HasKey(f_results, Strip(DfCell(f_budget, r, 0).s))
                /\ Get(f_results, Strip(DfCell(f_budget, r, 0).s))
                       = <<to_numeric(DfCell(f_budget, r, 2 + MonthIndex)),
                           Num(SumOfCols(f_budget[r], NumericCols(f_budget[r], 2, 2 + MonthIndex))),
                           to_numeric(DfCell(f_budget, r, 14))>>

\* June is selected and January holds a text: the YTD value is 2+3+4+5+6
C15_Witness ==
    /\ BudgetRead
    /\ f_month = "Jun"
    /\ MonthIndex = 5
    /\ 2 \in ExtractedRows
    /\ DfCell(f_budget, 2, 2) = Str(<<"n", "/", "a">>)
    /\ Get(f_results, RentalRevenue) = <<Num(6), Num(20), Num(78)>>

\* C16: whatever the budget sheet holds, once the budget data has been
\* processed the results for 'Amortization' and 'Depreciation' are
\* (rate, rate * m, rate * 12) with the rates 26500 and 121963 and m the
\* index, counted from 1, of the selected month.
C16_FixedLines ==
    BudgetRead =>
        /\ HasKey(f_results, W1("Amortization"))
        /\ Get(f_results, W1("Amortization"))
               = <<Num(26500), Num(26500 * (MonthIndex + 1)), Num(26500 * 12)>>
        /\ HasKey(f_results, W1("Depreciation"))
        /\ Get(f_results, W1("Depreciation"))
               = <<Num(121963), Num(121963 * (MonthIndex + 1)), Num(121963 * 12)>>

\* the sheet holds an Amortization row of its own and March is selected
C16_Witness ==
    /\ BudgetRead
    /\ LabelRows(f_budget, W1("Amortization")) # {}
    /\ f_month = "Mar"
    /\ Get(f_results, W1("Amortization")) = <<Num(26500), Num(79500), Num(318000)>>
    /\ Get(f_results, W1("Depreciation")) = <<Num(121963), Num(365889), Num(1463556)>>

\* parsing the income sheet of file idx raises
ParseRaises(idx) == parse_income_sheet_ytd(r_files[idx].income).err

\* file idx has a sheet with line items and a site that heads a column
Writable(idx) ==
    /\ ~ParseRaises(idx)
    /\ ~NoDicts(parse_income_sheet_ytd(r_files[idx].income))
    /\ FindTargetCol(r_inc0, ResolveSite(r_files[idx].name)) # 0

\* an iteration of the income loop or of the balance-sheet loop goes on to
\* the next file, or to the next stage after the last file
LoopGoesOn ==
    /\ r_pc = "income" => IF r_idx = Len(r_files) THEN r_pc' = "balance"
                          ELSE r_pc' = "income" /\ r_idx' = r_idx + 1
    /\ r_pc = "balance" => IF r_idx = Len(r_files) THEN r_pc' = "write"
                           ELSE r_pc' = "balance" /\ r_idx' = r_idx + 1

\* the error of a file whose income sheet raises while it is parsed is in
\* the processing log, no cell of the Income sheet is written from it, and
\* every later file the loop has run over has an entry of its own in the
\* processing log and, below the threshold 100, if it has line items and
\* a column, its YTD data written
RaisedFileSkipped ==
    \A idx \in 1..Len(r_files) :
        (IncomeDone(idx) /\ ParseRaises(idx)) =>
            /\ Logged(idx, "ERROR processing")
            /\ ~WroteIncome(idx)
            /\ \A later \in (idx + 1)..Len(r_files) :
                  IncomeDone(later) =>
                      /\ \E i \in 1..Len(r_logs) : r_logs[i].file = later
                      /\ (Writable(later) /\ r_threshold < MaxThreshold) =>
                            Logged(later, "YTD data written") /\ WroteIncome(later)

BalanceDone(idx) == r_pc \in {"write", "done"} \/ (r_pc = "balance" /\ idx < r_idx)

\* the name of file idx is one of filename_to_header
Listed(idx) == HasKey(filename_to_header, normalize_filename(r_files[idx].name))

\* one of the three markers is in no cell of column 0
MarkerAbsent(df) ==
    \E marker \in {"ASSETS", "LIABILITIES", "EQUITY"} :
        \A r \in 1..Len(df) : df[r][1] # Str(<<marker>>)

\* all_summaries holds a summary that came from file idx
SummaryFrom(idx) == \E e \in 1..Len(r_summaries) : r_summaries[e].v.file = idx

\* some cell of the Balance_sheet sheet was written from file idx
WroteBalance(idx) ==
    \E i \in 1..Len(r_log) : r_log[i].tag.file = idx /\ r_log[i].tag.sheet = "Balance_sheet"

\* no later file the loop has run over is stored under the same entity
LastOfItsEntity(idx) ==
    \A later \in (idx + 1)..Len(r_files) :
        (BalanceDone(later) /\ Listed(later)) =>
            Get(filename_to_header, normalize_filename(r_files[later].name))
                # Get(filename_to_header, normalize_filename(r_files[idx].name))

\* C18: for a listed file the balance-sheet loop has run over whose grid
\* lacks one of the markers ASSETS, LIABILITIES, EQUITY in column 0:
\* all_summaries holds no summary from it, no cell of Balance_sheet is
\* written from it, its warning is in the processing log, and the other
\* listed files with the three markers keep their summaries.
C18_MissingMarker ==
    \A idx \in 1..Len(r_files) :
        (BalanceDone(idx) /\ Listed(idx) /\ MarkerAbsent(r_files[idx].grid)) =>
            /\ ~SummaryFrom(idx)
            /\ ~WroteBalance(idx)
            /\ Logged(idx, "WARNING: section not found")
            /\ \A o \in 1..Len(r_files) :
                  (BalanceDone(o) /\ Listed(o) /\ ~MarkerAbsent(r_files[o].grid) /\ LastOfItsEntity(o))
                      => SummaryFrom(o)

\* a file without its EQUITY marker was passed over and the file after it
\* was written into Balance_sheet
C18_Witness ==
    /\ r_pc = "done"
    /\ Len(r_files) = 2
    /\ Listed(1)
    /\ r_files[1].grid = NoEquityGrid
    /\ Logged(1, "WARNING: section not found")
    /\ ~SummaryFrom(1)
    /\ SummaryFrom(2)
    /\ WroteBalance(2)

(***************************************************************************)
(* process_balance_sheet_file on grids that lack one marker row: the start *)
(* label or the total label of one section.                                *)
(***************************************************************************)
SectionNames == {"ASSETS", "LIABILITIES", "EQUITY"}

WholeGrids ==
    {Block("ASSETS", a, amtcol) \o Block("LIABILITIES", l, amtcol) \o Block("EQUITY", e, amtcol) :
        a \in SeqsUpTo(AssetRows, 1), l \in LiabilityRows, e \in EquityRows, amtcol \in 1..2}

IsStartRow(g, r, name) == g[r][1] = Str(<<name>>)
IsTotalRow(g, r, name) == g[r][1] = Str(<<"TOTAL", " ", name>>)

MarkerRowsOf(g) ==
    {r \in 1..Len(g) : \E name \in SectionNames : IsStartRow(g, r, name) \/ IsTotalRow(g, r, name)}

DropRow(g, r) == SubSeq(g, 1, r - 1) \o SubSeq(g, r + 1, Len(g))

DamagedGrids == UNION {{DropRow(g, r) : r \in MarkerRowsOf(g)} : g \in WholeGrids}

SectionsInit ==
    /\ b_pc = "call"
    /\ b_df \in DamagedGrids
    /\ b_summary = NoSummary
    /\ NormIdle /\ AnchIdle /\ ParseIdle /\ MatchIdle /\ RunIdle /\ FinIdle /\ CurIdle /\ SessIdle

SpecSections == SectionsInit /\ [][BalNext]_vars

SectionOf(summary, name) ==
    CASE name = "ASSETS" -> summary.ASSETS
      [] name = "LIABILITIES" -> summary.LIABILITIES
      [] name = "EQUITY" -> summary.EQUITY

\* the summary holds an empty map for the section `name` and, for the two
\* other sections, the maps of the grid g that has all its marker rows
OnlyEmpty(summary, name, g) ==
    /\ ~summary.none
    /\ SectionOf(summary, name) = EmptyDict
    /\ \A other \in SectionNames \ {name} :
          SectionOf(summary, other) = SectionOf(process_balance_sheet_file(g), other)

\* C19: process_balance_sheet_file on a grid that lacks the start label or
\* the total label of one section returns a summary in which only that
\* section's map is empty; the two other sections hold what they hold for
\* the grid with the row in place.
C19_OnlyThatSection ==
    b_pc = "done" =>
        \A g \in WholeGrids : \A r \in MarkerRowsOf(g) : \A name \in SectionNames :
            (b_df = DropRow(g, r) /\ (IsStartRow(g, r, name) \/ IsTotalRow(g, r, name))) =>
                OnlyEmpty(b_summary, name, g)

\* C19 as amended: the same for a grid that lacks the total label of one
\* section and holds the three start labels.
C19_MissingTotalLabel ==
    b_pc = "done" =>
        \A g \in WholeGrids : \A r \in MarkerRowsOf(g) : \A name \in SectionNames :
            (b_df = DropRow(g, r) /\ IsTotalRow(g, r, name)) => OnlyEmpty(b_summary, name, g)

\* the grid lacks TOTAL LIABILITIES: no liability is in the summary, the
\* assets and the equity are
C19_Witness ==
    /\ b_pc = "done"
    /\ HasMarker(b_df, "LIABILITIES")
    /\ EndMatches(b_df, <<"TOTAL", " ", "LIABILITIES">>) = {}
    /\ \E r \in 1..Len(b_df) : b_df[r][1] = Str(W2("LOANS", "PAYABLE"))
    /\ ~b_summary.none
    /\ b_summary.LIABILITIES = EmptyDict
    /\ b_summary.ASSETS # EmptyDict
    /\ b_summary.EQUITY # EmptyDict

\* ---------------------------------------------------------------------
\* Synonym folding of normalize_label (source lines 163-214), checked
\* under SpecNorm.
\* ---------------------------------------------------------------------

\* The rules of the synonym table whose spelled variant is the raw label
\* once lower-cased (line 166 lower-cases before anything else).
RulesSpelling(raw) == {k \in 1..Len(synonyms) : Lower(raw) = synonyms[k][1]}

\* C20: normalize_label folds every variant spelled in the synonym rule
\* table to that rule's canonical phrase: "Industrial Rent" and "Rental
\* Revenue" give "rental income", "amortization/finance cost" gives
\* "amortization".
C20_SynonymFolding ==
    n_pc \in {"once", "twice"} =>
        \A k \in RulesSpelling(n_raw) : n_once = synonyms[k][2]

(***************************************************************************)
(* parse_section as a cursor machine: the call locates the section, every  *)
(* step is one iteration of `while i < n`, the return ends it.  The grids  *)
(* hold the ASSETS section; some carry a row with the total label above    *)
(* the start row, some lack the start row or the total row.                *)
(***************************************************************************)
MaxCursorRows == 3

StartLabel == <<"ASSETS">>
TotalLabel == <<"TOTAL", " ", "ASSETS">>

CursorRows == {
    [label |-> Str(W2("FIXED", "ASSETS")), amount |-> None],
    [label |-> Str(W1("CASH")), amount |-> Num(3)],
    [label |-> Str(W1("INVENTORY")), amount |-> Num(0)],
    [label |-> None, amount |-> Num(2)],
    [label |-> Str(<<"Accounts", " ", "Receivable", " ", "-", " ", "Trade">>), amount |-> Num(4)],
    [label |-> Str(W2("Unit", "33")), amount |-> None]
}

\* a summary line above the section that names the total
SummaryLine(amtcol) == <<BRow(Str(<<"Total", " ", "Assets">>), Num(9), amtcol)>>

\* the sections of at most one row, with the amounts in either column
SmallBlocks ==
    {Block("ASSETS", rows, amtcol) : rows \in SeqsUpTo(CursorRows, 1), amtcol \in 1..2}

CursorBlocks ==
    {Block("ASSETS", rows, 1) : rows \in SeqsUpTo(CursorRows, MaxCursorRows)} \cup SmallBlocks

CursorGrids ==
    CursorBlocks
    \cup {SummaryLine(1) \o g : g \in SmallBlocks}
    \cup {DropRow(g, 1) : g \in SmallBlocks}
    \cup {DropRow(g, Len(g)) : g \in SmallBlocks}

CursorInit ==
    /\ c_pc = "call"
    /\ c_df \in CursorGrids
    /\ c_section = <<>>
    /\ c_sum_col = 0
    /\ c_i = 0
    /\ c_result = EmptyDict
    /\ c_seen = <<>>
    /\ NormIdle /\ AnchIdle /\ ParseIdle /\ MatchIdle /\ BalIdle /\ RunIdle /\ FinIdle /\ SessIdle

\* lines 682-708: locate the section and the sum column, i = 0
OpenSection ==
    /\ c_pc = "call"
    /\ IF StartMatches(c_df, StartLabel) = {} \/ EndMatches(c_df, TotalLabel) = {}
       THEN /\ c_pc' = "done"
            /\ UNCHANGED <<c_section, c_sum_col, c_i>>
       ELSE /\ c_pc' = "loop"
            /\ c_section' = SectionRows(c_df, First(StartMatches(c_df, StartLabel)),
                                        First(EndMatches(c_df, TotalLabel)))
            /\ c_sum_col' = SumCol(c_section', Len(c_df[1]))
            /\ c_i' = 1
    /\ UNCHANGED <<c_df, c_result, c_seen>>
    /\ UNCHANGED <<normVars, anchVars, parseVars, matchVars, balVars, runVars, finVars, sessVars>>

\* a loop that steps one row after a group header as after any other row
ClassifyStepRescanning ==
    /\ c_pc = "loop"
    /\ c_i <= Len(c_section)
    /\ c_result' = ClassifyRow(c_section, c_i, c_sum_col, c_result).result
    /\ c_i' = c_i + 1
    /\ c_seen' = Append(c_seen, Consumed(c_section, c_i, c_sum_col))
    /\ UNCHANGED <<c_pc, c_df, c_section, c_sum_col>>
    /\ UNCHANGED <<normVars, anchVars, parseVars, matchVars, balVars, runVars, finVars, sessVars>>

\* lines 709-760: one iteration of `while i < n`
ClassifyStep ==
    /\ c_pc = "loop"
    /\ c_i <= Len(c_section)
    /\ \E step \in {ClassifyRow(c_section, c_i, c_sum_col, c_result)} :
        /\ c_result' = step.result
        /\ c_i' = step.i
    /\ c_seen' = Append(c_seen, Consumed(c_section, c_i, c_sum_col))
    /\ UNCHANGED <<c_pc, c_df, c_section, c_sum_col>>
    /\ UNCHANGED <<normVars, anchVars, parseVars, matchVars, balVars, runVars, finVars, sessVars>>

\* line 762: the loop condition fails, return result
CloseSection ==
    /\ c_pc = "loop"
    /\ c_i > Len(c_section)
    /\ c_pc' = "done"
    /\ UNCHANGED <<c_df, c_section, c_sum_col, c_i, c_result, c_seen>>
    /\ UNCHANGED <<normVars, anchVars, parseVars, matchVars, balVars, runVars, finVars, sessVars>>

CursorNext == OpenSection \/ ClassifyStep \/ CloseSection

SpecCursor == CursorInit /\ [][CursorNext]_vars

\* the cursor machine returns what parse_section returns
CursorAgrees == c_pc = "done" => c_result = parse_section(c_df, StartLabel, TotalLabel)

(***************************************************************************)
(* Group headers of parse_section (lines 747-760), checked under           *)
(* SpecCursor.                                                             *)
(***************************************************************************)
\* the first row after i that has a string label and a digit in its text,
\* else the row after the section
StatedStop(section, i) ==
    IF \E j \in (i + 1)..Len(section) : IsStr(section[j][1]) /\ RowHasDigit(section[j])
    THEN First({j \in (i + 1)..Len(section) : IsStr(section[j][1]) /\ RowHasDigit(section[j])})
    ELSE Len(section) + 1

\* the sum of the numbers in column sum_col of rows lo..hi
RECURSIVE SumColumn(_, _, _, _)
SumColumn(section, sum_col, lo, hi) ==
    IF lo > hi THEN 0
    ELSE (IF IsNumber(section[lo][sum_col]) THEN section[lo][sum_col].v ELSE 0)
         + SumColumn(section, sum_col, lo + 1, hi)

\* C21: a row of parse_section with a string label and no non-zero number
\* is recorded as a group header whose amount is the sum of the sum-column
\* values of the rows that follow it up to the first row with a string
\* label and a digit in its text, and the cursor moves to that row, which
\* is then classified on its own.
C21_GroupHeader ==
    [][(c_pc = "loop" /\ c_i <= Len(c_section) /\ IsGroupHeader(c_section, c_i)) =>
           /\ c_i' = StatedStop(c_section, c_i)
           /\ c_result' = Put(c_result, Strip(c_section[c_i][1].s),
                              SumColumn(c_section, c_sum_col, c_i + 1,
                                        StatedStop(c_section, c_i) - 1))]_vars

(***************************************************************************)
(* The section range of parse_section (lines 683-696), checked under       *)
(* SpecCursor.                                                             *)
(***************************************************************************)
\* the rows after the start row whose column 0 contains the total label
EndMatchesAfterStart(df) ==
    {r \in EndMatches(df, TotalLabel) : r > First(StartMatches(df, StartLabel))}

Located(df) == StartMatches(df, StartLabel) # {} /\ EndMatchesAfterStart(df) # {}

\* C22: the end row of a section is the first row after the start row
\* whose column-0 text contains the total label, whatever the case, and the
\* parsed section is exactly the rows strictly between the two, also when a
\* row containing the total label stands above the start row.
C22_EndAfterStart ==
    (c_pc \in {"loop", "done"} /\ Located(c_df)) =>
        c_section = SectionRows(c_df, First(StartMatches(c_df, StartLabel)),
                                First(EndMatchesAfterStart(c_df)))

(***************************************************************************)
(* Blank labels in the three bands (lines 304-337 and 373-462), checked    *)
(* under SpecParse.                                                        *)
(***************************************************************************)
\* a labelled row matching "total" or "net rental income"
IncomeTerminator(ws, r) ==
    /\ Truthy(CellValue(ws, r, 1))
    /\ \/ SearchPhrase(StrOf(CellValue(ws, r, 1)), W1("total"))
       \/ SearchPhrase(StrOf(CellValue(ws, r, 1)), W3("net", "rental", "income"))

\* the labelled rows below the income header and above the first terminator
LabelledIncRows(ws, a) ==
    {r \in (a.inc_start + 1)..max_row(ws) :
        /\ Truthy(CellValue(ws, r, 1))
        /\ \A q \in (a.inc_start + 1)..r : ~IncomeTerminator(ws, q)}

BlanksSkipped(res, ws, col) ==
    LET a == find_anchor_rows(ws) IN
    (~res.err /\ AllAnchorsFound(a)) =>
        /\ IsSumOfRows(res.rev, ws, RevRows(ws, a), col)
        /\ IsSumOfRows(res.exp, ws, ExpRows(ws, a), col)
        /\ IsSumOfRows(res.inc, ws, LabelledIncRows(ws, a), col)

\* C23: in all three bands of both income parsers a row with an empty
\* label is skipped and the loop goes on; the income band ends only at the
\* first row matching "total" or "net rental income" or at the end of the
\* sheet, so labelled rows below a blank row are accumulated.
C23_BlankSkipped ==
    /\ p_pc \in {"ytd", "done"} => BlanksSkipped(p_ytd, p_ws, find_ytd_column(p_ws))
    /\ p_pc = "done" => BlanksSkipped(p_month, p_ws, find_month_column(p_ws))

(***************************************************************************)
(* Value cells that hold no number (lines 311-313, 383-390, 851-864),      *)
(* checked under SpecSkips.                                                *)
(***************************************************************************)
\* the rows the three loops accumulate
BandRows(ws) ==
    RevRows(ws, find_anchor_rows(ws)) \cup ExpRows(ws, find_anchor_rows(ws))
        \cup IncRows(ws, find_anchor_rows(ws))

\* an accumulated row of the sheet has a YTD or month cell that is empty or
\* holds something that is no number
HasNonNumericValue(ws) ==
    /\ ~find_anchor_rows(ws).err
    /\ AllAnchorsFound(find_anchor_rows(ws))
    /\ \E r \in BandRows(ws) :
          \/ CellValue(ws, r, find_ytd_column(ws)).t # "num"
          \/ CellValue(ws, r, find_month_column(ws)).t # "num"

\* C25: when the value cell of a labelled row of a source income sheet is
\* missing or holds no number, the row counts as 0, both parses of the
\* sheet complete without raising, and the file is not dropped from the
\* income pass: the processing log holds no error for it.
C25_NonNumericIsZero ==
    \A idx \in 1..Len(r_files) :
        (IncomeDone(idx) /\ HasNonNumericValue(r_files[idx].income)) =>
            /\ ~parse_income_sheet_ytd(r_files[idx].income).err
            /\ ~parse_income_sheet_month(r_files[idx].income).err
            /\ BandsAreSums(parse_income_sheet_ytd(r_files[idx].income), r_files[idx].income,
                            find_ytd_column(r_files[idx].income))
            /\ ~Logged(idx, "ERROR processing")

(***************************************************************************)
(* The rows match_and_write passes over (lines 479-483), checked under     *)
(* SpecMatch.                                                              *)
(***************************************************************************)
\* the raw label holds "total" somewhere in its text, whatever the case
ContainsTotalText(raw_target) ==
    \E i \in 1..Len(raw_target) : LowerTok(raw_target[i]) \in {"total", "subtotal"}

\* the label cell of row r is blank, or its text holds "total"
BlankOrTotal(r) == RawTarget(m_ws0, r) = <<>> \/ ContainsTotalText(RawTarget(m_ws0, r))

\* the amounts a call can write
WrittenValues == {NumQ(m_dict[i].v) : i \in 1..Len(m_dict)} \cup {Num(0)}

\* C24: match_and_write leaves the target cell of a template row as it
\* was, value and fill, when the label of the row is blank or its raw text
\* holds "total" as a substring in any case (such as "Subtotal"), and it
\* writes the target cell of every other row of the range.
C24_TotalRowsUntouched ==
    m_pc = "done" =>
        \A r \in StartRow..EndRow :
            IF BlankOrTotal(r)
            THEN TCell(m_ws, r, TargetCol) = TCell(m_ws0, r, TargetCol)
            ELSE TCell(m_ws, r, TargetCol).value \in WrittenValues

(***************************************************************************)
(* The cursor of the classification loop (lines 706-762), checked under    *)
(* SpecCursorFair: the loop is sequential code, so a step that is enabled  *)
(* is taken.                                                               *)
(***************************************************************************)
SpecCursorFair == SpecCursor /\ WF_vars(CursorNext)

\* the iterations so far that passed over row r
SeenBy(r) == {k \in 1..Len(c_seen) : r \in c_seen[k]}

\* the cursor is inside the section or one past it, every row before the
\* cursor was passed over by exactly one iteration and no row from the
\* cursor on by any
CursorCovers ==
    c_pc = "loop" \/ (c_pc = "done" /\ c_i > 0) =>
        /\ c_i \in 1..(Len(c_section) + 1)
        /\ \A r \in 1..Len(c_section) :
              Cardinality(SeenBy(r)) = (IF r < c_i THEN 1 ELSE 0)
        /\ c_pc = "done" => c_i = Len(c_section) + 1

\* an iteration moves the cursor forward: by one row unless the row is a
\* group header, and then to a row after it
CursorMoves ==
    (c_pc = "loop" /\ c_pc' = "loop") =>
        /\ c_i' > c_i
        /\ c_i' <= Len(c_section) + 1
        /\ ~IsGroupHeader(c_section, c_i) => c_i' = c_i + 1

\* C26: the classification loop of parse_section ends on every section:
\* each iteration moves the cursor i forward, by one row for skipped,
\* accounts-receivable and own-value rows and to the first unconsumed row
\* j >= i + 1 for a group header; the cursor never passes the section
\* length, and every section row is consumed by exactly one iteration.
C26_CursorAdvances == []CursorCovers /\ [][CursorMoves]_vars /\ <>(c_pc = "done")

\* the loop ended on a section of three rows after two iterations, one of
\* them a group header that consumed the row below it
C26_Witness ==
    /\ c_pc = "done"
    /\ Len(c_section) = 3
    /\ Len(c_seen) = 2
    /\ \E k \in 1..2 : Cardinality(c_seen[k]) = 2

(***************************************************************************)
(* One browser session: init_session_state (lines 25-31), then any number  *)
(* of presses of Process Files, each a run of process_all_files through    *)
(* its stages (lines 825-1254), and the results block (lines 1267-1289).   *)
(* A workbook is named by the run that saved it, a log entry by the run    *)
(* and stage that appended it.                                             *)
(***************************************************************************)
MaxRuns == 3

\* the values of current_stage, in the order the run takes them
Stages == <<
    "Initializing",
    "Loading template file",
    "Processing income statements",
    "Processing balance sheet",
    "Building balance sheet mappings",
    "Writing balance sheet values",
    "Processing budget data",
    "Processing last year's income statement",
    "Processing last year's balance sheet",
    "Writing last year's balance sheet values"
>>

\* the stages that append to processing_logs (lines 864, 890, 932, and the
\* functions the two loops call)
LoggingStages == {3, 4, 6}

SessionInit ==
    /\ s_pc = "idle"
    /\ s_run = 0
    /\ s_stage = 0
    /\ s_processed = FALSE
    /\ s_file = 0
    /\ s_logs = <<>>
    /\ s_ret = <<>>
    /\ NormIdle /\ AnchIdle /\ ParseIdle /\ MatchIdle /\ BalIdle /\ RunIdle /\ FinIdle /\ CurIdle

\* lines 1260-1263 and 826-828: the button starts a run, which empties the log
PressProcess ==
    /\ s_pc = "idle"
    /\ s_run < MaxRuns
    /\ s_pc' = "running"
    /\ s_run' = s_run + 1
    /\ s_stage' = 1
    /\ s_logs' = <<>>
    /\ UNCHANGED <<s_processed, s_file, s_ret>>
    /\ UNCHANGED <<normVars, anchVars, parseVars, matchVars, balVars, runVars, finVars, curVars>>

\* a stage completes and the next one begins; a logging stage may have
\* appended an entry
StageCompletes ==
    /\ s_pc = "running"
    /\ s_stage < Len(Stages)
    /\ s_stage' = s_stage + 1
    /\ \/ UNCHANGED s_logs
       \/ /\ s_stage \in LoggingStages
          /\ s_logs' = Append(s_logs, [run |-> s_run, stage |-> s_stage])
    /\ UNCHANGED <<s_pc, s_run, s_processed, s_file, s_ret>>
    /\ UNCHANGED <<normVars, anchVars, parseVars, matchVars, balVars, runVars, finVars, curVars>>

\* an except clause that stores the workbook built so far before it returns
StageRaisesStoringFile ==
    /\ s_pc = "running"
    /\ s_stage > 1
    /\ s_pc' = "idle"
    /\ s_file' = s_run
    /\ s_ret' = Append(s_ret, FALSE)
    /\ UNCHANGED <<s_run, s_stage, s_processed, s_logs>>
    /\ UNCHANGED <<normVars, anchVars, parseVars, matchVars, balVars, runVars, finVars, curVars>>

\* lines 1249-1254: an exception of a stage, or of the save, reaches the
\* outer except clause: st.error, return False
StageRaises ==
    /\ s_pc = "running"
    /\ s_stage > 1
    /\ s_pc' = "idle"
    /\ s_ret' = Append(s_ret, FALSE)
    /\ UNCHANGED <<s_run, s_stage, s_processed, s_file, s_logs>>
    /\ UNCHANGED <<normVars, anchVars, parseVars, matchVars, balVars, runVars, finVars, curVars>>

\* lines 1237-1247: the workbook is saved and stored, processed = True,
\* return True
SaveRun ==
    /\ s_pc = "running"
    /\ s_stage = Len(Stages)
    /\ s_pc' = "idle"
    /\ s_file' = s_run
    /\ s_processed' = TRUE
    /\ s_ret' = Append(s_ret, TRUE)
    /\ UNCHANGED <<s_run, s_stage, s_logs>>
    /\ UNCHANGED <<normVars, anchVars, parseVars, matchVars, balVars, runVars, finVars, curVars>>

SessionNext == PressProcess \/ StageCompletes \/ StageRaises \/ SaveRun

SpecSession == SessionInit /\ [][SessionNext]_vars

\* line 1268: the download button is shown
Downloadable == s_processed /\ s_file # 0

\* the last run that returned True, 0 when there is none
LastSuccess ==
    IF \E k \in 1..Len(s_ret) : s_ret[k]
    THEN Greatest({k \in 1..Len(s_ret) : s_ret[k]})
    ELSE 0

\* the last finished run returned False
LastRunFailed == s_pc = "idle" /\ s_ret # <<>> /\ ~s_ret[Len(s_ret)]

\* the stored workbook is the one of the last successful run, the flag is
\* set exactly when there is one, and after a failed run the log holds the
\* entries of that run only
SessionKeepsLastGood ==
    /\ s_file = LastSuccess
    /\ s_processed <=> LastSuccess # 0
    /\ Downloadable <=> LastSuccess # 0
    /\ LastRunFailed => \A i \in 1..Len(s_logs) : s_logs[i].run = Len(s_ret)

\* the flag and the stored workbook change only in the step that ends a
\* run whose stages all completed
OnlySaveStores ==
    (s_processed' # s_processed \/ s_file' # s_file) =>
        /\ s_pc = "running" /\ s_stage = Len(Stages)
        /\ s_ret' = Append(s_ret, TRUE)
        /\ s_processed' /\ s_file' = s_run

\* C27: across the runs of one session, a run that aborts with a fatal
\* error neither sets the processed flag nor replaces consolidated_file;
\* both change only at the end of a run whose stages all completed, so
\* after a failed run the download, if any, is the workbook of the last
\* successful run while the processing log holds the entries of the failed
\* run only.
C27_FailedRunKeepsFile == []SessionKeepsLastGood /\ [][OnlySaveStores]_vars

\* the first run succeeded, the second logged an entry and then failed:
\* the download is the workbook of the first run
C27_Witness ==
    /\ s_ret = <<TRUE, FALSE>>
    /\ s_pc = "idle"
    /\ Downloadable /\ s_file = 1
    /\ s_logs # <<>>
    /\ \A i \in 1..Len(s_logs) : s_logs[i].run = 2

====
